---------------------------- MODULE Spec2Model ----------------------------
(***************************************************************************)
(* A model of the MD&A extraction core of Annualreport_tools:              *)
(*   - LLMClient (annual_report_mda/llm/client.py): provider fallback and  *)
(*     the per-provider circuit breaker;                                   *)
(*   - SelfRefineLoop (annual_report_mda/adaptive/self_refine.py);         *)
(*   - the scorer (annual_report_mda/scorer.py);                           *)
(*   - the strategy engine (annual_report_mda/strategies.py);             *)
(*   - one job of the batch extractor (mda_extractor.py);                  *)
(*   - the section splitter (annual_report_mda/section_splitter.py) and    *)
(*     the year-over-year detector of the scorer;                          *)
(*   - the adaptive stores (adaptive/few_shot.py, failure_patterns.py,     *)
(*     strategy_weights.py);                                               *)
(*   - a run of mda_extractor.py main() over its worker pool.              *)
(* Each component has its own specification (SpecLLM, SpecRefine,          *)
(* SpecQuality, SpecExtract, SpecScan, SpecWorker, SpecSplit, SpecYoy,     *)
(* SpecFewShot, SpecFailure, SpecWeights, SpecBatch) over one set of       *)
(* variables; the variables of the components a specification does not     *)
(* exercise stay at their idle values.                                     *)
(***************************************************************************)
EXTENDS Integers, Sequences, FiniteSets, TLC

VARIABLES
    \* ---- LLMClient (client.py:44-75) ----
    providers,        \* keys of self._providers (the enabled provider names)
    fallback_order,   \* self._fallback_order
    api_keys,         \* the providers whose is_available() is true
    failure_counts,   \* self._failure_counts
    circuit_broken,   \* self._circuit_broken
    call,             \* the outcome of the last complete() call
    last_op,          \* the last operation performed on the client
    streak,           \* observed: consecutive failures of each provider
    tripped,          \* observed: a run of failure_threshold failures was seen
    \* ---- calculate_quality_score (scorer.py:286-335) ----
    q_in,             \* the arguments (text, quality_flags, score_detail)
    q_out,            \* Some(the QualityScore returned), Nil before the call
    \* ---- extract_mda_iterative (strategies.py:486-598) ----
    x_in,             \* the arguments of the call
    x_candidates,     \* the candidates list before it is sorted
    x_result,         \* what the call returned: Nil or Some(ExtractionResult)
    x_done,           \* whether the call has returned
    \* ---- SelfRefineLoop.refine (self_refine.py:50-156) ----
    r_in,             \* pages, initial_extraction, max_iterations, score_threshold
    r_pc,             \* where the session is: idle, loop, evaluate, refine,
                      \* returned, raised
    r_iteration,      \* the loop variable iteration
    r_current,        \* current_extraction: Nil or Some(ExtractionResult)
    r_start_pattern,  \* current_start_pattern
    r_end_pattern,    \* current_end_pattern
    r_history,        \* history
    r_result,         \* Nil or Some(the RefineResult returned)
    r_error,          \* the exception refine() raised, None if none
    r_trace,          \* observed: the extractions and LLM calls of the session
    \* ---- mda_extractor.py: one job of the batch ----
    w_in,             \* the payload of the job and what load_pages returns
    w_pc,             \* idle, submitted, done (worker returned), stored
    w_out,            \* Nil or Some(the dict _extract_one_worker returned)
    mda_text,         \* the records upserted into the table mda_text
    extraction_errors, \* the rows inserted into the table extraction_errors
    \* ---- split_mda_sections (section_splitter.py:39-128) ----
    s_in,             \* the argument mda_text
    s_out,            \* Nil or Some(the MdaSections returned)
    \* ---- detect_yoy_change (scorer.py:393-431) ----
    y_in,             \* current_text, prev_text, similarity_threshold
    y_out,            \* Nil or Some(<<is_abnormal, similarity>>)
    \* ---- FewShotStore (adaptive/few_shot.py) ----
    samples,          \* self._samples
    \* ---- FailurePatternStore (adaptive/failure_patterns.py) ----
    patterns,         \* self._patterns
    failures,         \* observed: the number of add_failure calls made so far
    \* ---- StrategyWeights (adaptive/strategy_weights.py) ----
    stats,            \* self._stats
    records,          \* observed: the record() calls made so far
    \* ---- mda_extractor.py main() over the worker pool ----
    b_in,             \* the arguments (mode, incremental, workers), the files
                      \* found and the rows of mda_text when main() starts
    b_pc,             \* idle, start, pool, store, exit, aborted, raised
    jobs,             \* jobs of _submit_jobs
    futures,          \* the state of the future of each job with a payload
    results,          \* results of _submit_jobs
    b_next,           \* the index of the next item of results main() stores
    db_log            \* observed: the statements executed on conn

llmVars == <<providers, fallback_order, api_keys, failure_counts,
             circuit_broken, call, last_op, streak, tripped>>

qVars == <<q_in, q_out>>

xVars == <<x_in, x_candidates, x_result, x_done>>

rVars == <<r_in, r_pc, r_iteration, r_current, r_start_pattern, r_end_pattern,
           r_history, r_result, r_error, r_trace>>

wVars == <<w_in, w_pc, w_out, mda_text, extraction_errors>>

sVars == <<s_in, s_out>>

yVars == <<y_in, y_out>>

fVars == <<samples>>

pVars == <<patterns, failures>>

kVars == <<stats, records>>

bVars == <<b_in, b_pc, jobs, futures, results, b_next, db_log>>

\* the variables of the components added to the worker's
oVars == <<sVars, yVars, fVars, pVars, kVars, bVars>>

vars == <<llmVars, qVars, xVars, rVars, wVars, oVars>>

-----------------------------------------------------------------------------
(***************************************************************************)
(* Generic helpers.                                                        *)
(***************************************************************************)
\* None where a string is expected (a provider name, a pattern)
None == "None"

\* Optional values of the other types: Nil is None, Some(x) a value x
Nil == <<>>

Some(x) == <<x>>

Val(o) == o[1]

Range(s) == {s[i] : i \in 1..Len(s)}

\* d with key k bound to v (a Python dict assignment d[k] = v)
DictSet(d, k, v) == [x \in DOMAIN d \cup {k} |-> IF x = k THEN v ELSE d[x]]

\* d.get(k, dflt)
DictGet(d, k, dflt) == IF k \in DOMAIN d THEN d[k] ELSE dflt

EmptyDict == [x \in {} |-> 0]

-----------------------------------------------------------------------------
(***************************************************************************)
(* Text.  A Python string is modelled by its lines (str.splitlines), a     *)
(* line by its words, and a word by what the regular expressions and the   *)
(* substring tests of the code can see of it: its kind w, its length n in  *)
(* characters, and for a dotted leader the printed page number pg that     *)
(* ends it.  The kinds are                                                 *)
(*   sec     a chapter prefix, "第三节 "                                   *)
(*   mda     an entry of MDA_TITLES, "管理层讨论与分析"                    *)
(*   gov     an entry of NEXT_TITLES, "公司治理"                           *)
(*   sup     an entry of NEXT_TITLES that holds "监事会": "监事会报告"     *)
(*   ref     an entry of _REFERENCE_WORDS, "详见"                          *)
(*   toc     the contents marker "目录"                                    *)
(*   leader  a dotted leader and a number, "......12"                      *)
(*   dots    the first n dots of a leader that was cut                     *)
(*   digits  a run of n digits                                             *)
(*   rev yoy biz gm cash ind outl   the seven DEFAULT_KEYWORDS             *)
(*   profit  the anchor word "利润"                                        *)
(*   pA      a heading wording that no built-in title list holds           *)
(*   garb    n characters outside _VALID_CHARS_RE                          *)
(*   txt     n characters of plain running text                            *)
(*   sup3    a "sup" cut after its third character: it still holds         *)
(*           "监事会" but is no entry of NEXT_TITLES                        *)
(*   frag    what is left of any other title or keyword that was cut: it   *)
(*           matches nothing                                               *)
(*   lit     the literal "toc" that the TOC strategy stores as hit_start   *)
(* The empty string is the empty sequence of lines; lines are joined by    *)
(* one "\n".                                                               *)
(***************************************************************************)
WordLen(k) ==
    CASE k = "sec" -> 4
      [] k = "mda" -> 8
      [] k = "gov" -> 4
      [] k = "sup" -> 5
      [] k \in {"biz"} -> 4
      [] k \in {"gm", "cash"} -> 3
      [] OTHER -> 2

W(k) == [w |-> k, n |-> WordLen(k), pg |-> 0]

Txt(n) == [w |-> "txt", n |-> n, pg |-> 0]

Garb(n) == [w |-> "garb", n |-> n, pg |-> 0]

Digits(n) == [w |-> "digits", n |-> n, pg |-> 0]

\* six dots and a one-digit page number
Leader(pg) == [w |-> "leader", n |-> 7, pg |-> pg]

LeaderDots == 6

RECURSIVE SumLen(_)
SumLen(ws) == IF ws = <<>> THEN 0 ELSE Head(ws).n + SumLen(Tail(ws))

\* len(line)
LineLen(line) == SumLen(line)

RECURSIVE SumLineLen(_)
SumLineLen(t) == IF t = <<>> THEN 0 ELSE LineLen(Head(t)) + SumLineLen(Tail(t))

\* len(text)
TextLen(t) == IF t = <<>> THEN 0 ELSE SumLineLen(t) + Len(t) - 1

\* whether the literal k occurs in the line / in the text
LineHas(line, k) == \E i \in 1..Len(line) : line[i].w = k

TextHas(t, k) == \E j \in 1..Len(t) : LineHas(t[j], k)

\* the first n characters of a line (n >= 0); a word cut in two matches
\* nothing any more, except that the dots of a leader stay dots
RECURSIVE CutLine(_, _)
CutLine(line, n) ==
    IF line = <<>> \/ n <= 0 THEN <<>>
    ELSE LET x == Head(line) IN
         IF x.n <= n THEN <<x>> \o CutLine(Tail(line), n - x.n)
         ELSE IF x.w \in {"leader", "dots"}
              THEN <<[w |-> "dots", pg |-> 0,
                      n |-> IF n < LeaderDots THEN n ELSE LeaderDots]>>
                   \o (IF n > LeaderDots
                       THEN <<Digits(n - LeaderDots)>> ELSE <<>>)
              ELSE <<[w |-> IF x.w \in {"txt", "garb", "digits"} THEN x.w
                            ELSE IF x.w = "sup" /\ n >= 3 THEN "sup3"
                            ELSE "frag",
                      n |-> n, pg |-> 0]>>

\* text[:n]
RECURSIVE CutText(_, _)
CutText(t, n) ==
    IF t = <<>> \/ n <= 0 THEN <<>>
    ELSE LET l == LineLen(Head(t)) IN
         IF Len(t) = 1 \/ n <= l THEN <<CutLine(Head(t), n)>>
         ELSE IF n = l + 1 THEN <<Head(t), <<>> >>
         ELSE <<Head(t)>> \o CutText(Tail(t), n - l - 1)

\* text[-n:] for a text longer than n: the words that lie wholly inside the
\* last n characters (a word cut at its front matches nothing)
RECURSIVE TailWords(_, _)
TailWords(t, n) ==
    IF t = <<>> \/ n <= 0 THEN {}
    ELSE LET line == t[Len(t)]
             rest == SubSeq(t, 1, Len(t) - 1)
         IN  IF line = <<>> THEN TailWords(rest, n - 1)
             ELSE LET x == line[Len(line)]
                      t2 == [t EXCEPT ![Len(t)] = SubSeq(line, 1, Len(line) - 1)]
                  IN  IF x.n > n THEN {}
                      ELSE {x.w} \cup
                           (IF Len(line) = 1 THEN TailWords(rest, n - x.n - 1)
                            ELSE TailWords(t2, n - x.n))

-----------------------------------------------------------------------------
(***************************************************************************)
(* Scorer (annual_report_mda/scorer.py)                                    *)
(***************************************************************************)
DEFAULT_KEYWORDS == {"biz", "rev", "yoy", "gm", "cash", "ind", "outl"}

\* scores are kept as integers: a score s of the code is ScoreScale * s here
\* (every score of the code is a multiple of 0.8/7 plus 0, 0.2, 0.5 or 0.7)
ScoreScale == 70

MIN_SCORE_LENGTH == 500

DOTS_BONUS_LIMIT == 10

\* the contribution of one word to dots_count: text.count("...") plus the
\* matches of \.{4,}
DotsOfWord(x) ==
    LET d == IF x.w = "leader" THEN LeaderDots
             ELSE IF x.w = "dots" THEN x.n ELSE 0
    IN  (d \div 3) + (IF d >= 4 THEN 1 ELSE 0)

RECURSIVE DotsOfLine(_)
DotsOfLine(line) ==
    IF line = <<>> THEN 0 ELSE DotsOfWord(Head(line)) + DotsOfLine(Tail(line))

RECURSIVE DotsCount(_)
DotsCount(t) == IF t = <<>> THEN 0 ELSE DotsOfLine(Head(t)) + DotsCount(Tail(t))

ScoreDetail(hit, total, dots, length) ==
    [keyword_hit_count |-> hit, keyword_total |-> total,
     dots_count |-> dots, length |-> length]

\* calculate_mda_score(text) with the default keywords
calculate_mda_score(text) ==
    IF text = <<>> THEN [score |-> 0, detail |-> ScoreDetail(0, 0, 0, 0)]
    ELSE LET length == TextLen(text) IN
         IF length < MIN_SCORE_LENGTH
         THEN [score |-> 0, detail |-> ScoreDetail(0, 0, 0, length)]
         ELSE LET hit == Cardinality({k \in DEFAULT_KEYWORDS : TextHas(text, k)})
                  total == Cardinality(DEFAULT_KEYWORDS)
                  dots == DotsCount(text)
                  \* (hit / total) * 0.8, plus 0.2 when dots_count < 10
                  sc == ((hit * 8 * ScoreScale) \div (10 * total))
                        + (IF dots < DOTS_BONUS_LIMIT THEN (2 * ScoreScale) \div 10 ELSE 0)
              IN  [score |-> IF sc > ScoreScale THEN ScoreScale ELSE sc,
                   detail |-> ScoreDetail(hit, total, dots, length)]

TABLE_CONSECUTIVE_THRESHOLD == 3

HEADER_MAX_LEN == 50

HEADER_REPEAT_THRESHOLD == 3

\* _GARBLED_RATIO_THRESHOLD is 0.05 = 1 / GARBLED_RATIO_INV
GARBLED_RATIO_INV == 20

\* _TABLE_LINE_RE.match(stripped) for a non-blank line
IsTableLine(line) ==
    /\ line # <<>>
    /\ \A i \in 1..Len(line) : line[i].w \in {"digits", "leader", "dots"}

\* the loop of detect_table_residue: cur is current_consecutive, mx is
\* max_consecutive
RECURSIVE TableRun(_, _, _)
TableRun(lines, cur, mx) ==
    IF lines = <<>> THEN mx
    ELSE IF Head(lines) = <<>> THEN TableRun(Tail(lines), 0, mx)
    ELSE IF IsTableLine(Head(lines))
         THEN TableRun(Tail(lines), cur + 1, IF cur + 1 > mx THEN cur + 1 ELSE mx)
         ELSE TableRun(Tail(lines), 0, mx)

\* detect_table_residue(text) = (is_detected, max_consecutive_count)
detect_table_residue(text) ==
    LET mx == TableRun(text, 0, 0)
    IN  [detected |-> mx >= TABLE_CONSECUTIVE_THRESHOLD, lines |-> mx]

\* detect_header_noise(text): the short lines that occur more than 3 times
detect_header_noise(text) ==
    LET short == {text[i] : i \in {j \in 1..Len(text) :
                        text[j] # <<>> /\ LineLen(text[j]) < HEADER_MAX_LEN}}
        count(l) == Cardinality({i \in 1..Len(text) : text[i] = l})
        repeated == {l \in short : count(l) > HEADER_REPEAT_THRESHOLD}
    IN  [detected |-> repeated # {}, repeated |-> repeated]

RECURSIVE GarbOfLine(_)
GarbOfLine(line) ==
    IF line = <<>> THEN 0
    ELSE (IF Head(line).w = "garb" THEN Head(line).n ELSE 0) + GarbOfLine(Tail(line))

RECURSIVE GarbCount(_)
GarbCount(t) == IF t = <<>> THEN 0 ELSE GarbOfLine(Head(t)) + GarbCount(Tail(t))

\* calculate_garbled_ratio(text) > _GARBLED_RATIO_THRESHOLD.  The code
\* computes 1.0 - valid_count / total in binary floating point: when the
\* garbled characters are exactly one in twenty the difference is
\* 0.05000000000000004, which is greater than the double 0.05, so the test
\* is true from exactly 5% on.
garbled_over_threshold(text) ==
    /\ text # <<>>
    /\ GarbCount(text) > 0
    /\ GarbCount(text) * GARBLED_RATIO_INV >= TextLen(text)

\* detect_negative_features(text)
detect_negative_features(text) ==
    IF text = <<>>
    THEN [table_residue_score |-> 0, header_noise_score |-> 0, garbled_penalty |-> 0]
    ELSE [table_residue_score |-> IF detect_table_residue(text).detected THEN 15 ELSE 0,
          header_noise_score |-> IF detect_header_noise(text).detected THEN 10 ELSE 0,
          garbled_penalty |-> IF garbled_over_threshold(text) THEN 20 ELSE 0]

\* _FLAG_PENALTIES
FLAG_PENALTIES ==
    [f \in {"FLAG_LENGTH_ABNORMAL", "FLAG_CONTENT_MISMATCH", "FLAG_TAIL_OVERLAP",
            "FLAG_PAGE_BOUNDARY_MISSING", "FLAG_TOC_MISMATCH",
            "FLAG_EXTRACT_FAILED", "FLAG_YOY_CHANGE_HIGH"} |->
        CASE f = "FLAG_LENGTH_ABNORMAL" -> 10
          [] f = "FLAG_CONTENT_MISMATCH" -> 15
          [] f = "FLAG_TAIL_OVERLAP" -> 10
          [] f = "FLAG_PAGE_BOUNDARY_MISSING" -> 5
          [] f = "FLAG_TOC_MISMATCH" -> 10
          [] f = "FLAG_EXTRACT_FAILED" -> 100
          [] f = "FLAG_YOY_CHANGE_HIGH" -> 5]

\* flag.lower() for the keys of _FLAG_PENALTIES
Lower(f) ==
    CASE f = "FLAG_LENGTH_ABNORMAL" -> "flag_length_abnormal"
      [] f = "FLAG_CONTENT_MISMATCH" -> "flag_content_mismatch"
      [] f = "FLAG_TAIL_OVERLAP" -> "flag_tail_overlap"
      [] f = "FLAG_PAGE_BOUNDARY_MISSING" -> "flag_page_boundary_missing"
      [] f = "FLAG_TOC_MISMATCH" -> "flag_toc_mismatch"
      [] f = "FLAG_EXTRACT_FAILED" -> "flag_extract_failed"
      [] f = "FLAG_YOY_CHANGE_HIGH" -> "flag_yoy_change_high"

NEEDS_REVIEW_THRESHOLD == 60

DOTS_EXCESS_THRESHOLD == 10

\* the loop over quality_flags: penalties[flag.lower()] = _FLAG_PENALTIES[flag]
RECURSIVE FlagPenalties(_, _)
FlagPenalties(flags, penalties) ==
    IF flags = <<>> THEN penalties
    ELSE FlagPenalties(Tail(flags),
            IF Head(flags) \in DOMAIN FLAG_PENALTIES
            THEN DictSet(penalties, Lower(Head(flags)), FLAG_PENALTIES[Head(flags)])
            ELSE penalties)

SumValuesMutMax(d) ==
    IF DOMAIN d = {} THEN 0
    ELSE d[CHOOSE k \in DOMAIN d : \A j \in DOMAIN d : d[j] <= d[k]]

\* sum(penalties.values())
RECURSIVE SumValues(_)
SumValues(d) ==
    IF DOMAIN d = {} THEN 0
    ELSE LET k == CHOOSE x \in DOMAIN d : TRUE
         IN  d[k] + SumValues([x \in DOMAIN d \ {k} |-> d[x]])

NeedsReviewMutLE(final_score) == final_score <= NEEDS_REVIEW_THRESHOLD

\* final_score < NEEDS_REVIEW_THRESHOLD
needs_review_of(final_score) == final_score < NEEDS_REVIEW_THRESHOLD

\* calculate_quality_score(text, quality_flags, score_detail); quality_flags
\* is Some(sequence) or Nil, score_detail is Some(ScoreDetail) or Nil
calculate_quality_score(text, quality_flags, score_detail) ==
    IF text = <<>>
    THEN [score |-> 0, needs_review |-> TRUE,
          penalties |-> [k \in {"empty_text"} |-> 100]]
    ELSE LET p1 == IF quality_flags # Nil /\ Val(quality_flags) # <<>>
                   THEN FlagPenalties(Val(quality_flags), EmptyDict) ELSE EmptyDict
             p2 == IF score_detail # Nil
                      /\ Val(score_detail).dots_count >= DOTS_EXCESS_THRESHOLD
                   THEN DictSet(p1, "dots_excess", 20) ELSE p1
             neg == detect_negative_features(text)
             p3 == IF neg.table_residue_score > 0
                   THEN DictSet(p2, "table_residue", neg.table_residue_score) ELSE p2
             p4 == IF neg.header_noise_score > 0
                   THEN DictSet(p3, "header_noise", neg.header_noise_score) ELSE p3
             p5 == IF neg.garbled_penalty > 0
                   THEN DictSet(p4, "garbled_text", neg.garbled_penalty) ELSE p4
             total_penalty == SumValues(p5)
             final_score == IF 100 - total_penalty < 0 THEN 0 ELSE 100 - total_penalty
         IN  [score |-> final_score, needs_review |-> needs_review_of(final_score),
              penalties |-> p5]

-----------------------------------------------------------------------------
(***************************************************************************)
(* Strategy engine (annual_report_mda/strategies.py).  pages is a sequence *)
(* of pages, a page the sequence of its lines; page and line indexes are   *)
(* 0-based as in the code.                                                 *)
(***************************************************************************)
MAX_PAGES_DEFAULT == 15

MAX_CHARS_DEFAULT == 120000

HEADING_MAX_LEN == 60

TOC_SCAN_PAGES == 15

MDA_TITLES == {"mda"}

NEXT_TITLES == {"gov", "sup"}

REFERENCE_WORDS == {"ref"}

\* the words that hold "监事会" or "审计报告"
TAIL_MARKERS == {"sup", "sup3"}

ANCHOR_WORDS == {"rev", "profit", "yoy"}

PageAt(pages, i) == pages[i + 1]

Min(a, b) == IF a < b THEN a ELSE b

\* lines[a:b] for 0 <= a, 0 <= b (Python slice semantics)
Slice(lines, a, b) == SubSeq(lines, a + 1, Min(b, Len(lines)))

\* _TOC_DOTLINE_RE.search(line): the line ends with a dotted leader and a number
IsDotLine(line) == line # <<>> /\ line[Len(line)].w = "leader"

\* re.search(r"(\d+)\s*$", line) on a dot line
EndNumber(line) == line[Len(line)].pg

NonBlank(page) == {i \in 1..Len(page) : page[i] # <<>>}

\* _is_toc_page(text)
is_toc_page(page) ==
    IF page = <<>> THEN FALSE
    ELSE LET dot_lines == Cardinality({i \in NonBlank(page) : IsDotLine(page[i])})
             has_toc_keyword == TextHas(page, "toc")
         IN  IF has_toc_keyword /\ dot_lines >= 2 THEN TRUE
             ELSE IF Cardinality(NonBlank(page)) < 8 THEN FALSE
             ELSE dot_lines >= 5

\* _looks_like_heading(line)
looks_like_heading(line) ==
    /\ line # <<>>
    /\ LineLen(line) <= HEADING_MAX_LEN
    /\ ~IsDotLine(line)
    /\ ~(\A i \in 1..Len(line) : line[i].w = "digits")
    /\ ~(\E r \in REFERENCE_WORDS : LineHas(line, r))

\* title_regex.search(line) for MDA_TITLES
HasMdaTitle(line) == \E k \in MDA_TITLES : LineHas(line, k)

\* any(r.search(line) for r in pattern_regexes): a chapter prefix directly
\* followed by an MD&A title
HasMdaPattern(line) ==
    \E i \in 1..(Len(line) - 1) : line[i].w = "sec" /\ line[i + 1].w \in MDA_TITLES

\* _SECTION_LEVEL_RE.match(stripped)
IsSectionLevel(line) == line # <<>> /\ line[1].w = "sec"

\* the hits of one page, from line index li (0-based) on
RECURSIVE PageHeadingHits(_, _, _)
PageHeadingHits(page, page_index, li) ==
    IF li >= Len(page) THEN <<>>
    ELSE LET line == page[li + 1] IN
         (IF looks_like_heading(line) /\ (HasMdaPattern(line) \/ HasMdaTitle(line))
          THEN <<[page_index |-> page_index, line_index |-> li, line |-> line]>>
          ELSE <<>>)
         \o PageHeadingHits(page, page_index, li + 1)

\* skip_toc_pages = len(pages) > 1
skip_toc_pages(pages) == Len(pages) > 1

RECURSIVE HeadingHitsFrom(_, _)
HeadingHitsFrom(pages, pi) ==
    IF pi >= Len(pages) THEN <<>>
    ELSE (IF skip_toc_pages(pages) /\ is_toc_page(PageAt(pages, pi)) THEN <<>>
          ELSE PageHeadingHits(PageAt(pages, pi), pi, 0))
         \o HeadingHitsFrom(pages, pi + 1)

\* _find_heading_hits(pages, title_regex, pattern_regexes)
find_heading_hits(pages) == HeadingHitsFrom(pages, 0)

\* the end-title test of _find_end_hits for one line
IsEndHit(line) ==
    /\ looks_like_heading(line)
    /\ \E k \in NEXT_TITLES : LineHas(line, k)
    /\ \/ IsSectionLevel(line)
       \/ line[1].w \in NEXT_TITLES

\* the line tests of the two end searches: the built-in end titles
\* (pat = None) or a custom pattern, re.search(pat, line)
LineMatches(line, pat) ==
    IF pat = None THEN IsEndHit(line)
    ELSE looks_like_heading(line) /\ LineHas(line, pat)

\* the first matching line of pages pi .. last_excl - 1, starting at line li
\* of page pi: Some([page_index, line_index, line]) or Nil
RECURSIVE FirstLineHit(_, _, _, _, _)
FirstLineHit(pages, pi, li, last_excl, pat) ==
    IF pi >= last_excl THEN Nil
    ELSE IF li >= Len(PageAt(pages, pi))
         THEN FirstLineHit(pages, pi + 1, 0, last_excl, pat)
         ELSE IF LineMatches(PageAt(pages, pi)[li + 1], pat)
              THEN Some([page_index |-> pi, line_index |-> li,
                         line |-> PageAt(pages, pi)[li + 1]])
              ELSE FirstLineHit(pages, pi, li + 1, last_excl, pat)

\* end_hits[0] of _find_end_hits(...), or Nil when the list is empty
find_end_hit(pages, start_page_index, start_line_index, max_page_index_exclusive) ==
    FirstLineHit(pages, start_page_index, start_line_index + 1,
                 Min(Len(pages), max_page_index_exclusive), None)

\* "\n".join(lines).strip("\n"): the lines without the empty ones at both ends
RECURSIVE DropLeadingEmpty(_)
DropLeadingEmpty(lines) ==
    IF lines # <<>> /\ Head(lines) = <<>> THEN DropLeadingEmpty(Tail(lines))
    ELSE lines

RECURSIVE DropTrailingEmpty(_)
DropTrailingEmpty(lines) ==
    IF lines # <<>> /\ lines[Len(lines)] = <<>>
    THEN DropTrailingEmpty(SubSeq(lines, 1, Len(lines) - 1))
    ELSE lines

StripNewlines(lines) == DropTrailingEmpty(DropLeadingEmpty(lines))

\* the loop of _extract_between over page_index in range(pi, end_page_index + 1);
\* end_line_index is Nil or Some(index)
RECURSIVE SelectedText(_, _, _, _, _, _)
SelectedText(pages, pi, start_page_index, start_line_index, end_page_index, end_line_index) ==
    IF pi > end_page_index THEN <<>>
    ELSE LET l0 == PageAt(pages, pi)
             l1 == IF pi = start_page_index
                   THEN Slice(l0, start_line_index, Len(l0)) ELSE l0
             l2 == IF pi = end_page_index /\ end_line_index # Nil
                   THEN Slice(l1, 0, Val(end_line_index)) ELSE l1
         IN  StripNewlines(l2)
             \o SelectedText(pages, pi + 1, start_page_index, start_line_index,
                             end_page_index, end_line_index)

\* _extract_between(...); end_page_index and end_line_index are Nil or Some
extract_between(pages, start_page_index, start_line_index, end_page_index, end_line_index) ==
    LET epi == IF end_page_index = Nil THEN Len(pages) - 1 ELSE Val(end_page_index)
        eli == IF end_page_index = Nil THEN Nil ELSE end_line_index
    IN  [text |-> SelectedText(pages, start_page_index, start_page_index,
                               start_line_index, epi, eli),
         page_index_start |-> start_page_index,
         page_index_end |-> epi + 1]

\* the end that _apply_limits settles on: [epi, eli, trunc, reason]
LimitEnd(pages, start_page_index, max_pages, end_page_index, end_line_index) ==
    LET page_limit_end_exclusive == Min(Len(pages), start_page_index + max_pages) IN
    IF end_page_index = Nil
    THEN IF Len(pages) > page_limit_end_exclusive
         THEN [epi |-> page_limit_end_exclusive - 1, eli |-> Nil,
               trunc |-> TRUE, reason |-> "max_pages"]
         ELSE [epi |-> Len(pages) - 1, eli |-> Nil,
               trunc |-> TRUE, reason |-> "end_not_found"]
    ELSE IF Val(end_page_index) + 1 > page_limit_end_exclusive
         THEN [epi |-> page_limit_end_exclusive - 1, eli |-> Nil,
               trunc |-> TRUE, reason |-> "max_pages"]
         ELSE [epi |-> Val(end_page_index), eli |-> end_line_index,
               trunc |-> FALSE, reason |-> None]

\* the max_chars cut of _apply_limits on the extracted text ex
LimitChars(ex, lim, max_chars) ==
    [text |-> IF TextLen(ex.text) > max_chars THEN CutText(ex.text, max_chars)
              ELSE ex.text,
     page_index_start |-> ex.page_index_start,
     page_index_end |-> ex.page_index_end,
     is_truncated |-> lim.trunc \/ TextLen(ex.text) > max_chars,
     truncation_reason |-> IF TextLen(ex.text) > max_chars /\ ~lim.trunc
                           THEN "max_chars" ELSE lim.reason]

\* _apply_limits from the settled end on
ApplyLimitsTo(pages, start_page_index, start_line_index, max_chars, lim) ==
    LimitChars(extract_between(pages, start_page_index, start_line_index,
                               Some(lim.epi), lim.eli),
               lim, max_chars)

\* _apply_limits(...)
apply_limits(pages, start_page_index, start_line_index, max_pages, max_chars, end_page_index, end_line_index) ==
    ApplyLimitsTo(pages, start_page_index, start_line_index, max_chars,
                  LimitEnd(pages, start_page_index, max_pages,
                           end_page_index, end_line_index))

TAIL_CHARS == 500

LENGTH_MIN == 1000

LENGTH_MAX == 50000

ANCHOR_MIN == 2

\* _compute_quality(text, page_break_kind): [flags, detail]
compute_quality(text, page_break_kind) ==
    LET anchor_hit == Cardinality({a \in ANCHOR_WORDS : TextHas(text, a)})
        tail == IF TextLen(text) > TAIL_CHARS
                THEN TailWords(text, TAIL_CHARS)
                ELSE {k \in TAIL_MARKERS : TextHas(text, k)}
    IN  [flags |->
            (IF page_break_kind = "none" THEN <<"FLAG_PAGE_BOUNDARY_MISSING">> ELSE <<>>)
            \o (IF TextLen(text) < LENGTH_MIN \/ TextLen(text) > LENGTH_MAX
                THEN <<"FLAG_LENGTH_ABNORMAL">> ELSE <<>>)
            \o (IF anchor_hit < ANCHOR_MIN THEN <<"FLAG_CONTENT_MISMATCH">> ELSE <<>>)
            \o (IF tail \cap TAIL_MARKERS # {} THEN <<"FLAG_TAIL_OVERLAP">> ELSE <<>>),
         detail |-> [page_break_kind |-> page_break_kind,
                     char_count |-> TextLen(text),
                     anchor_hit_count |-> anchor_hit,
                     toc_body_page_diff |-> Nil]]

ResultRecordMutInclusive(lim, sc, q, printed_start, printed_end, hit_start, hit_end, used_rule_type) ==
    [mda_raw |-> lim.text,
     score |-> sc.score,
     score_detail |-> sc.detail,
     page_index_start |-> lim.page_index_start,
     page_index_end |-> lim.page_index_end - 1,
     page_count |-> lim.page_index_end - lim.page_index_start,
     printed_page_start |-> printed_start,
     printed_page_end |-> printed_end,
     hit_start |-> hit_start,
     hit_end |-> hit_end,
     is_truncated |-> lim.is_truncated,
     truncation_reason |-> lim.truncation_reason,
     used_rule_type |-> used_rule_type,
     quality_flags |-> q.flags,
     quality_detail |-> q.detail]

\* the dataclass ExtractionResult
ResultRecord(lim, sc, q, printed_start, printed_end, hit_start, hit_end, used_rule_type) ==
    [mda_raw |-> lim.text,
     score |-> sc.score,
     score_detail |-> sc.detail,
     page_index_start |-> lim.page_index_start,
     page_index_end |-> lim.page_index_end,
     page_count |-> lim.page_index_end - lim.page_index_start,
     printed_page_start |-> printed_start,
     printed_page_end |-> printed_end,
     hit_start |-> hit_start,
     hit_end |-> hit_end,
     is_truncated |-> lim.is_truncated,
     truncation_reason |-> lim.truncation_reason,
     used_rule_type |-> used_rule_type,
     quality_flags |-> q.flags,
     quality_detail |-> q.detail]

\* the ExtractionResult built from a limited text: its score and its
\* quality flags are those of the text
ExtractionResult(lim, printed_start, printed_end, hit_start, hit_end, used_rule_type, page_break_kind) ==
    ResultRecord(lim, calculate_mda_score(lim.text),
                 compute_quality(lim.text, page_break_kind),
                 printed_start, printed_end, hit_start, hit_end, used_rule_type)

\* the result that the custom and the generic strategy build from their
\* start hit h and their end hit (Nil or Some)
ResultFromHits(pages, h, end, max_pages, max_chars, used_rule_type, page_break_kind) ==
    ExtractionResult(
        apply_limits(pages, h.page_index, h.line_index, max_pages, max_chars,
                     IF end = Nil THEN Nil ELSE Some(Val(end).page_index),
                     IF end = Nil THEN Nil ELSE Some(Val(end).line_index)),
        Nil, Nil, h.line,
        IF end = Nil THEN Nil ELSE Some(Val(end).line),
        used_rule_type, page_break_kind)

\* _try_extract_with_custom_rule from its start hit h on
CustomFromStart(pages, h, end_pattern, max_pages, max_chars, page_break_kind) ==
    ResultFromHits(pages, h,
                   IF end_pattern = None \/ end_pattern = "" THEN Nil
                   ELSE FirstLineHit(pages, h.page_index, h.line_index + 1,
                                     Min(Len(pages), h.page_index + max_pages),
                                     end_pattern),
                   max_pages, max_chars, "custom", page_break_kind)

\* the return of _try_extract_with_custom_rule for its first start hit
CustomFromHit(pages, start, end_pattern, max_pages, max_chars, page_break_kind) ==
    IF start = Nil THEN Nil
    ELSE Some(CustomFromStart(pages, Val(start), end_pattern, max_pages,
                              max_chars, page_break_kind))

\* _try_extract_with_custom_rule(...): Nil or Some(result); the first heading
\* that holds start_pattern is the start, TOC pages included
try_extract_with_custom_rule(pages, start_pattern, end_pattern, max_pages, max_chars, page_break_kind) ==
    CustomFromHit(pages, FirstLineHit(pages, 0, 0, Len(pages), start_pattern),
                  end_pattern, max_pages, max_chars, page_break_kind)

\* the non-blank lines of the TOC pages among the first scan_pages pages
RECURSIVE TocLines(_, _, _)
TocLines(pages, pi, scan_pages) ==
    IF pi >= Min(Len(pages), scan_pages) THEN <<>>
    ELSE (IF is_toc_page(PageAt(pages, pi))
          THEN SelectSeq(PageAt(pages, pi), LAMBDA ln : ln # <<>>)
          ELSE <<>>)
         \o TocLines(pages, pi + 1, scan_pages)

\* the loop of parse_toc_for_page_range over the TOC lines; st holds
\* printed_start, printed_end (Nil or Some) and done (the break)
RECURSIVE ScanTocLines(_, _)
ScanTocLines(lines, st) ==
    IF lines = <<>> \/ st.done THEN st
    ELSE LET ln == Head(lines) IN
         IF ~IsDotLine(ln) THEN ScanTocLines(Tail(lines), st)
         ELSE IF st.printed_start = Nil /\ HasMdaTitle(ln)
              THEN ScanTocLines(Tail(lines),
                                [st EXCEPT !.printed_start = Some(EndNumber(ln))])
              ELSE IF /\ st.printed_start # Nil
                      /\ st.printed_end = Nil
                      /\ \E k \in NEXT_TITLES : LineHas(ln, k)
                   THEN [st EXCEPT !.printed_end = Some(EndNumber(ln)), !.done = TRUE]
                   ELSE ScanTocLines(Tail(lines), st)

\* _map_printed_to_index(pn): the first index whose printed number is pn
map_printed_to_index(page_numbers, pn) ==
    LET hits == {i \in 1..Len(page_numbers) : page_numbers[i] = Some(pn)} IN
    IF hits = {} THEN Nil
    ELSE Some((CHOOSE i \in hits : \A j \in hits : i <= j) - 1)

\* the TocHit for a mapped start index
TocHitAt(page_numbers, st, page_index_start) ==
    IF page_index_start = Nil THEN Nil
    ELSE Some([printed_page_start |-> st.printed_start,
               printed_page_end |-> st.printed_end,
               page_index_start |-> Val(page_index_start),
               page_index_end |->
                   IF st.printed_end = Nil THEN Nil
                   ELSE map_printed_to_index(Val(page_numbers), Val(st.printed_end))])

\* parse_toc_for_page_range after its scan of the TOC lines
TocHitOf(page_numbers, st) ==
    IF st.printed_start = Nil THEN Nil
    ELSE IF page_numbers = Nil \/ page_numbers = Some(<<>>) THEN Nil
    ELSE TocHitAt(page_numbers, st,
                  map_printed_to_index(Val(page_numbers), Val(st.printed_start)))

\* parse_toc_for_page_range from the lines of its TOC pages on
TocHitFromLines(lines, page_numbers) ==
    IF lines = <<>> THEN Nil
    ELSE TocHitOf(page_numbers,
                  ScanTocLines(lines, [printed_start |-> Nil, printed_end |-> Nil,
                                       done |-> FALSE]))

\* parse_toc_for_page_range(pages, page_numbers, scan_pages): Nil or
\* Some(TocHit); page_numbers is Nil or Some(sequence of Nil / Some(number))
parse_toc_for_page_range(pages, page_numbers, scan_pages) ==
    IF pages = <<>> THEN Nil
    ELSE TocHitFromLines(TocLines(pages, 0, scan_pages), page_numbers)

SNIPPET_MAX_PAGES == 2

SNIPPET_MAX_CHARS == 2000

\* the 0.5 added to the score of a section-level heading, on ScoreScale
SECTION_BONUS == 35

\* the anchor score of one start hit in extract_mda_from_pages
AnchorScore(pages, hit) ==
    calculate_mda_score(apply_limits(pages, hit.page_index, hit.line_index,
                                     SNIPPET_MAX_PAGES, SNIPPET_MAX_CHARS,
                                     Nil, Nil).text).score
    + (IF IsSectionLevel(hit.line) THEN SECTION_BONUS ELSE 0)

\* one step of the loop that keeps the first hit of the strictly greatest
\* anchor score
RECURSIVE BestStart(_, _, _, _)
BestStartStep(pages, hits, best, best_anchor_score, sc) ==
    IF sc > best_anchor_score
    THEN BestStart(pages, Tail(hits), Some(Head(hits)), sc)
    ELSE BestStart(pages, Tail(hits), best, best_anchor_score)

BestStart(pages, hits, best, best_anchor_score) ==
    IF hits = <<>> THEN best
    ELSE BestStartStep(pages, hits, best, best_anchor_score,
                       AnchorScore(pages, Head(hits)))

\* extract_mda_from_pages from its start h on
GenericFromStart(pages, h, max_pages, max_chars, page_break_kind) ==
    ResultFromHits(pages, h,
                   find_end_hit(pages, h.page_index, h.line_index,
                                Min(Len(pages), h.page_index + max_pages)),
                   max_pages, max_chars, "generic", page_break_kind)

\* extract_mda_from_pages from best_start on
GenericFromBest(pages, best_start, max_pages, max_chars, page_break_kind) ==
    IF best_start = Nil THEN Nil
    ELSE Some(GenericFromStart(pages, Val(best_start), max_pages, max_chars,
                               page_break_kind))

\* extract_mda_from_pages from its start hits on
GenericFromHits(pages, start_hits, max_pages, max_chars, page_break_kind) ==
    IF start_hits = <<>> THEN Nil
    ELSE GenericFromBest(pages, BestStart(pages, start_hits, Nil, -1),
                         max_pages, max_chars, page_break_kind)

\* extract_mda_from_pages(...): Nil or Some(result)
extract_mda_from_pages(pages, max_pages, max_chars, page_break_kind) ==
    IF pages = <<>> THEN Nil
    ELSE GenericFromHits(pages, find_heading_hits(pages), max_pages, max_chars,
                         page_break_kind)

\* text[:max_chars] of the TOC range ex
TocLimited(ex, max_chars) ==
    [text |-> CutText(ex.text, max_chars),
     page_index_start |-> ex.page_index_start,
     page_index_end |-> ex.page_index_end,
     is_truncated |-> TextLen(ex.text) > max_chars,
     truncation_reason |-> IF TextLen(ex.text) > max_chars THEN "max_chars" ELSE None]

\* the TOC candidate of extract_mda_iterative
TocCandidate(pages, toc, max_chars, page_break_kind) ==
    ExtractionResult(
        TocLimited(extract_between(pages, toc.page_index_start, 0,
                                   Some(Val(toc.page_index_end) - 1), Nil),
                   max_chars),
        toc.printed_page_start, toc.printed_page_end,
        <<[w |-> "lit", n |-> 3, pg |-> 0]>>, Nil, "toc", page_break_kind)

\* the TOC candidate as a list: empty without a TocHit or without its end
TocCandidates(pages, toc, max_chars, page_break_kind) ==
    IF toc # Nil /\ Val(toc).page_index_end # Nil
    THEN <<TocCandidate(pages, Val(toc), max_chars, page_break_kind)>>
    ELSE <<>>

\* the candidates list of extract_mda_iterative before it is sorted: the
\* custom, the TOC and the generic candidate, each if there is one
Candidates(pages, page_numbers, page_break_kind, max_pages, max_chars, custom_start_pattern, custom_end_pattern) ==
    (IF custom_start_pattern = None \/ custom_start_pattern = "" THEN <<>>
     ELSE try_extract_with_custom_rule(pages, custom_start_pattern,
              custom_end_pattern, max_pages, max_chars, page_break_kind))
    \o TocCandidates(pages,
                     parse_toc_for_page_range(pages, page_numbers, TOC_SCAN_PAGES),
                     max_chars, page_break_kind)
    \o extract_mda_from_pages(pages, max_pages, max_chars, page_break_kind)

\* the sort key (c.score, len(c.mda_raw)): a strictly before b in the
\* descending order
KeyGreater(a, b) ==
    \/ a.score > b.score
    \/ a.score = b.score /\ TextLen(a.mda_raw) > TextLen(b.mda_raw)

\* insertion of c behind every element that is not smaller (a stable sort)
RECURSIVE InsertSorted(_, _)
InsertSorted(sorted, c) ==
    IF sorted = <<>> THEN <<c>>
    ELSE IF KeyGreater(c, Head(sorted)) THEN <<c>> \o sorted
    ELSE <<Head(sorted)>> \o InsertSorted(Tail(sorted), c)

RECURSIVE SortFrom(_, _)
SortFrom(cands, sorted) ==
    IF cands = <<>> THEN sorted
    ELSE SortFrom(Tail(cands), InsertSorted(sorted, Head(cands)))

SortMutAscending(cands) ==
    [i \in 1..Len(cands) |-> SortFrom(cands, <<>>)[Len(cands) + 1 - i]]

\* candidates.sort(key=lambda c: (c.score, len(c.mda_raw)), reverse=True)
SortCandidates(cands) == SortFrom(cands, <<>>)

\* best.score <= 0.4, on ScoreScale
MIN_BEST_SCORE == 28

TocMismatchPagesMut3 == 2 + 1

\* page_diff > 2
TOC_MISMATCH_PAGES == 2

Abs(x) == IF x < 0 THEN -x ELSE x

\* the first candidate of a rule type: Nil or Some
FirstOfType(cands, t) ==
    LET hits == {i \in 1..Len(cands) : cands[i].used_rule_type = t} IN
    IF hits = {} THEN Nil ELSE Some(cands[CHOOSE i \in hits : \A j \in hits : i <= j])

\* what extract_mda_iterative returns for its candidates list
SelectBest(cands) ==
    IF cands = <<>> THEN Nil
    ELSE LET toc_result == FirstOfType(cands, "toc")
             body_result == FirstOfType(cands, "generic")
             both == toc_result # Nil /\ body_result # Nil
             page_diff == IF both
                          THEN Abs(Val(toc_result).page_index_start
                                   - Val(body_result).page_index_start)
                          ELSE 0
             extra == both /\ page_diff > TOC_MISMATCH_PAGES
             best == SortCandidates(cands)[1]
         IN  IF best.score <= MIN_BEST_SCORE THEN Nil
             ELSE IF extra
                  THEN Some([best EXCEPT
                               !.quality_flags = @ \o <<"FLAG_TOC_MISMATCH">>,
                               !.quality_detail.toc_body_page_diff = Some(page_diff)])
                  ELSE Some(best)

\* extract_mda_iterative(...): Nil or Some(result)
extract_mda_iterative(pages, page_numbers, page_break_kind, max_pages, max_chars, custom_start_pattern, custom_end_pattern) ==
    SelectBest(Candidates(pages, page_numbers, page_break_kind, max_pages,
                          max_chars, custom_start_pattern, custom_end_pattern))

-----------------------------------------------------------------------------
(***************************************************************************)
(* LLMClient                                                               *)
(***************************************************************************)
\* the four adapters the constructor always builds
ALL_PROVIDERS == {"deepseek", "qwen", "claude", "openai"}

DEFAULT_FALLBACK_ORDER == <<"deepseek", "qwen", "claude", "openai">>

failure_threshold == 5

\* a bound of the model: complete() is not called once a counter is this high
MaxFailCount == 6

\* what one provider does when its complete() is awaited
ProviderOutcomes == {"ok", "timeout", "http_error"}

\* the constructions of LLMClient the model explores:
\* (providers argument, fallback_order argument, providers with an API key)
LLMConfigs ==
    { [providers |-> ALL_PROVIDERS, fallback_order |-> DEFAULT_FALLBACK_ORDER,
       api_keys |-> {"deepseek", "qwen"}],
      [providers |-> {"qwen", "claude"}, fallback_order |-> DEFAULT_FALLBACK_ORDER,
       api_keys |-> {"deepseek", "qwen", "claude"}],
      [providers |-> ALL_PROVIDERS, fallback_order |-> <<"openai", "deepseek">>,
       api_keys |-> {"deepseek", "openai"}],
      [providers |-> ALL_PROVIDERS, fallback_order |-> DEFAULT_FALLBACK_ORDER,
       api_keys |-> {"claude"}],
      [providers |-> ALL_PROVIDERS, fallback_order |-> DEFAULT_FALLBACK_ORDER,
       api_keys |-> {}] }

is_available(name) == name \in api_keys

\* get_available_providers over an explicit breaker state
RECURSIVE AvailableFrom(_, _)
AvailableFrom(order, cb) ==
    IF order = <<>> THEN <<>>
    ELSE LET name == Head(order)
             rest == AvailableFrom(Tail(order), cb)
         IN  IF name \notin providers THEN rest
             ELSE IF is_available(name) /\ ~DictGet(cb, name, FALSE)
                  THEN <<name>> \o rest
                  ELSE rest

get_available_providers == AvailableFrom(fallback_order, circuit_broken)

FailureMutGT(st, provider) ==
    LET n == DictGet(st.fc, provider, 0) + 1
    IN  [fc |-> DictSet(st.fc, provider, n),
         cb |-> IF n > failure_threshold
                THEN DictSet(st.cb, provider, TRUE) ELSE st.cb]

\* _record_failure: st is [fc |-> failure counts, cb |-> breaker flags]
record_failure(st, provider) ==
    LET n == DictGet(st.fc, provider, 0) + 1
    IN  [fc |-> DictSet(st.fc, provider, n),
         cb |-> IF n >= failure_threshold
                THEN DictSet(st.cb, provider, TRUE) ELSE st.cb]

\* reset_circuit_breaker(provider)
reset_state(st, provider) ==
    IF provider # None
    THEN [fc |-> DictSet(st.fc, provider, 0),
          cb |-> DictSet(st.cb, provider, FALSE)]
    ELSE [fc |-> [k \in providers |-> 0],
          cb |-> [k \in providers |-> FALSE]]

SuccessMutNoReset(st, provider) == st

\* _record_success: st is [fc |-> failure counts, cb |-> breaker flags]
record_success(st, provider) ==
    [st EXCEPT !.fc = DictSet(st.fc, provider, 0)]

AfterFailureMutNoBreak(to_try, retry_on_failure) == Tail(to_try)

\* "if not retry_on_failure: break": what is left to try after Head(to_try)
\* has thrown
after_failure(to_try, retry_on_failure) ==
    IF ~retry_on_failure THEN <<>> ELSE Tail(to_try)

\* the for loop of complete(): to_try is what is left of providers_to_try,
\* errors the dict built so far, tried the providers awaited so far
RECURSIVE complete_loop(_, _, _, _, _, _)
complete_loop(st, to_try, retry_on_failure, outc, errors, tried) ==
    IF to_try = <<>>
    THEN [fc |-> st.fc, cb |-> st.cb, tried |-> tried, raised |-> TRUE,
          response |-> None, errors |-> errors]
    ELSE LET name == Head(to_try) IN
         IF name \notin providers \/ ~is_available(name)
         THEN complete_loop(st, Tail(to_try), retry_on_failure, outc, errors, tried)
         ELSE IF outc[name] = "ok"
         THEN LET s2 == record_success(st, name)
              IN  [fc |-> s2.fc, cb |-> s2.cb, tried |-> Append(tried, name),
                   raised |-> FALSE, response |-> name, errors |-> errors]
         ELSE complete_loop(record_failure(st, name),
                            after_failure(to_try, retry_on_failure),
                            retry_on_failure, outc,
                            DictSet(errors, name, outc[name]),
                            Append(tried, name))

\* LLMClient.complete(prompt, provider=..., retry_on_failure=...): outc gives
\* what each provider's complete() does if it is awaited during this call
complete(st, provider, retry_on_failure, outc) ==
    LET providers_to_try == IF provider # None THEN <<provider>>
                            ELSE AvailableFrom(fallback_order, st.cb)
    IN  IF providers_to_try = <<>>
        THEN [fc |-> st.fc, cb |-> st.cb, tried |-> <<>>, raised |-> TRUE,
              response |-> None, errors |-> [k \in {"all"} |-> "no_provider"]]
        ELSE complete_loop(st, providers_to_try, retry_on_failure, outc,
                           EmptyDict, <<>>)

ClientState == [fc |-> failure_counts, cb |-> circuit_broken]

NoCall == [provider |-> None, retry_on_failure |-> TRUE, outc |-> EmptyDict,
           tried |-> <<>>, raised |-> FALSE, response |-> None,
           errors |-> EmptyDict]

ExtractIdle ==
    /\ x_in = [pages |-> <<>>, page_numbers |-> Nil, page_break_kind |-> "none",
               max_pages |-> MAX_PAGES_DEFAULT, max_chars |-> MAX_CHARS_DEFAULT,
               custom_start_pattern |-> None, custom_end_pattern |-> None]
    /\ x_candidates = <<>>
    /\ x_result = Nil
    /\ x_done = FALSE

DEFAULT_MAX_ITERATIONS == 3

DEFAULT_SCORE_THRESHOLD == 70

RefineIdle ==
    /\ r_in = [pages |-> <<>>, initial_extraction |-> Nil,
               max_iterations |-> DEFAULT_MAX_ITERATIONS,
               score_threshold |-> DEFAULT_SCORE_THRESHOLD]
    /\ r_pc = "idle"
    /\ r_iteration = 0
    /\ r_current = Nil
    /\ r_start_pattern = None
    /\ r_end_pattern = None
    /\ r_history = <<>>
    /\ r_result = Nil
    /\ r_error = None
    /\ r_trace = <<>>

QualityIdle ==
    /\ q_in = [text |-> <<>>, quality_flags |-> Nil, score_detail |-> Nil]
    /\ q_out = Nil

\* no job of the extractor has been submitted
WorkerIdle ==
    /\ w_in = [pages |-> <<>>, page_numbers |-> Nil, page_break_kind |-> "none",
               max_pages |-> MAX_PAGES_DEFAULT, max_chars |-> MAX_CHARS_DEFAULT,
               custom_start_pattern |-> None, custom_end_pattern |-> None]
    /\ w_pc = "idle"
    /\ w_out = Nil
    /\ mda_text = <<>>
    /\ extraction_errors = <<>>

SplitIdle ==
    /\ s_in = <<>>
    /\ s_out = Nil

YoyIdle ==
    /\ y_in = [current_text |-> <<>>, prev_text |-> Nil,
               similarity_threshold |-> Nil]
    /\ y_out = Nil

FewShotIdle == samples = <<>>

FailureIdle ==
    /\ patterns = <<>>
    /\ failures = 0

WeightsIdle ==
    /\ stats = <<>>
    /\ records = <<>>

BatchIdle ==
    /\ b_in = [mode |-> "dir", paths |-> <<>>, incremental |-> FALSE,
               workers |-> 4, rows |-> <<>>]
    /\ b_pc = "idle"
    /\ jobs = <<>>
    /\ futures = <<>>
    /\ results = <<>>
    /\ b_next = 1
    /\ db_log = <<>>

\* the components added to the worker's are idle
OtherIdle ==
    /\ SplitIdle
    /\ YoyIdle
    /\ FewShotIdle
    /\ FailureIdle
    /\ WeightsIdle
    /\ BatchIdle

LLMInit ==
    /\ \E c \in LLMConfigs :
          /\ providers = c.providers
          /\ fallback_order = c.fallback_order
          /\ api_keys = c.api_keys
    /\ failure_counts = [k \in providers |-> 0]
    /\ circuit_broken = [k \in providers |-> FALSE]
    /\ call = NoCall
    /\ last_op = "init"
    /\ streak = [p \in ALL_PROVIDERS |-> 0]
    /\ tripped = [p \in ALL_PROVIDERS |-> FALSE]

\* the providers a call can reach, whose behaviour the environment chooses
Reachable == providers \cap api_keys

\* the effect of one call of complete() on the client, from its first line
\* to its return or raise
CompleteCall(provider, retry_on_failure, outc) ==
    LET r == complete(ClientState, provider, retry_on_failure, outc) IN
    \* what a provider that is never awaited would have done is
    \* immaterial: one representative (ok) is explored
    /\ \A p \in Reachable \ Range(r.tried) : outc[p] = "ok"
    /\ failure_counts' = r.fc
    /\ circuit_broken' = r.cb
    /\ call' = [provider |-> provider, retry_on_failure |-> retry_on_failure,
                outc |-> outc, tried |-> r.tried, raised |-> r.raised,
                response |-> r.response, errors |-> r.errors]
    /\ last_op' = "complete"
    /\ streak' = [p \in ALL_PROVIDERS |->
                    IF p \notin Range(r.tried) THEN streak[p]
                    ELSE IF outc[p] = "ok" THEN 0 ELSE streak[p] + 1]
    /\ tripped' = [p \in ALL_PROVIDERS |->
                    tripped[p] \/ streak'[p] >= failure_threshold]
    /\ UNCHANGED <<providers, fallback_order, api_keys>>

\* one call of complete() by a user of the client
Complete ==
    /\ \A p \in DOMAIN failure_counts : failure_counts[p] < MaxFailCount
    /\ \E provider \in ALL_PROVIDERS \cup {None}, retry_on_failure \in BOOLEAN,
          outc \in [Reachable -> ProviderOutcomes] :
          CompleteCall(provider, retry_on_failure, outc)
    /\ UNCHANGED <<qVars, wVars, oVars, xVars, rVars>>

\* one call of reset_circuit_breaker(provider)
ResetCircuitBreaker ==
    /\ \E provider \in ALL_PROVIDERS \cup {None} :
          LET r == reset_state(ClientState, provider)
              hit == IF provider # None THEN {provider} ELSE providers IN
          /\ failure_counts' = r.fc
          /\ circuit_broken' = r.cb
          /\ call' = [NoCall EXCEPT !.provider = provider]
          /\ streak' = [p \in ALL_PROVIDERS |-> IF p \in hit THEN 0 ELSE streak[p]]
          /\ tripped' = [p \in ALL_PROVIDERS |-> IF p \in hit THEN FALSE ELSE tripped[p]]
    /\ last_op' = "reset"
    /\ UNCHANGED <<providers, fallback_order, api_keys, qVars, wVars, oVars, xVars, rVars>>

NextLLM == Complete \/ ResetCircuitBreaker

InitLLM == LLMInit /\ QualityIdle /\ ExtractIdle /\ RefineIdle /\ WorkerIdle /\ OtherIdle

SpecLLM == InitLLM /\ [][NextLLM]_vars

-----------------------------------------------------------------------------
(***************************************************************************)
(* Properties of LLMClient, checked under SpecLLM.                         *)
(***************************************************************************)
Broken(p) == DictGet(circuit_broken, p, FALSE)

\* a step that is a complete() call
IsCompleteStep == last_op' = "complete"

\* a step that is a reset_circuit_breaker call covering provider p
IsResetStepFor(p) ==
    /\ last_op' = "reset"
    /\ call'.provider \in {p, None}

C3_State ==
    \A p \in ALL_PROVIDERS :
        /\ Broken(p) <=> tripped[p]
        /\ DictGet(failure_counts, p, 0) = streak[p]
        /\ Broken(p) => p \notin Range(get_available_providers)

C3_SuccessResets ==
    (IsCompleteStep /\ call'.response # None)
        => failure_counts'[call'.response] = 0

C3_StaysOpen ==
    \A p \in ALL_PROVIDERS :
        (Broken(p) /\ ~IsResetStepFor(p)) => DictGet(circuit_broken', p, FALSE)

\* C3: after any sequence of complete() and reset_circuit_breaker() calls a
\* provider's breaker is open exactly when that provider was observed to fail
\* failure_threshold (5) times in a row, with no success of it in between,
\* since construction or its last reset; its failure counter is the length of
\* its current run of failures (so a success puts it back to 0); an open
\* breaker keeps the provider out of get_available_providers(), and it stays
\* open across every step that is not a reset covering that provider.
C3_BreakerOpensAfterFiveInARow ==
    /\ []C3_State
    /\ [][C3_SuccessResets]_vars
    /\ [][C3_StaysOpen]_vars

\* a provider has just failed for the fifth time in a row and its breaker is open
C3_Witness ==
    \E p \in ALL_PROVIDERS :
        /\ last_op = "complete"
        /\ p \in Range(call.tried)
        /\ streak[p] = failure_threshold
        /\ Broken(p)
        /\ p \notin Range(get_available_providers)

\* C4 (as claimed): while a provider's breaker is open, no complete() call,
\* whether it goes by priority order or names one pinned provider, awaits that
\* provider.
C4_OpenBreakerNeverInvoked ==
    [][IsCompleteStep => \A p \in Range(call'.tried) : ~Broken(p)]_vars

\* the two providers get_available_providers() lists, the first of which
\* throws and the second of which succeeds in the call this step makes
C5_Pre ==
    /\ IsCompleteStep
    /\ call'.provider = None
    /\ Len(get_available_providers) = 2
    /\ call'.outc[get_available_providers[1]] # "ok"
    /\ call'.outc[get_available_providers[2]] = "ok"

C5_Post ==
    LET a == get_available_providers[1]
        b == get_available_providers[2]
    IN  /\ call'.tried = <<a, b>>
        /\ ~call'.raised
        /\ call'.response = b
        /\ failure_counts'[a] = failure_counts[a] + 1
        /\ failure_counts'[b] = 0

\* C5 (as claimed): with two available providers, the first throwing and the
\* second succeeding, any complete() call with no pinned provider tries the
\* first, then the second, returns the second's response, adds exactly 1 to
\* the first's failure counter and leaves the second's at 0.
C5_FallbackToSecond_Original == [][C5_Pre => C5_Post]_vars

\* C5 (amended): the same, for calls made with retry_on_failure true (its
\* default value).
C5_FallbackToSecond ==
    [][(C5_Pre /\ call'.retry_on_failure) => C5_Post]_vars

\* a call fell back from a failing first provider, whose breaker had counted
\* failures before, to the second one
C5_Witness ==
    /\ last_op = "complete"
    /\ call.provider = None
    /\ call.retry_on_failure
    /\ Len(call.tried) = 2
    /\ call.response = call.tried[2]
    /\ DOMAIN call.errors = {call.tried[1]}
    /\ failure_counts[call.tried[1]] = 3
    /\ failure_counts[call.tried[2]] = 0

\* C6: a complete() call that ends without a response raises the aggregate
\* error, whose errors map has exactly one entry for each provider awaited in
\* the call, holding what that provider threw (when no provider was there to
\* try the map holds the single entry "all" instead); and with
\* retry_on_failure false no provider is awaited after the first that threw.
C6_AggregateErrorCarriesEveryFailure ==
    (last_op = "complete") =>
        /\ call.raised <=> (call.response = None)
        /\ call.raised =>
              /\ \A p \in Range(call.tried) :
                    p \in DOMAIN call.errors /\ call.errors[p] = call.outc[p]
                                             /\ call.outc[p] # "ok"
              /\ DOMAIN call.errors \ Range(call.tried) \subseteq {"all"}
              /\ "all" \in DOMAIN call.errors => call.tried = <<>>
              /\ Cardinality(DOMAIN call.errors \ {"all"}) = Len(call.tried)
        /\ ~call.retry_on_failure =>
              \A i \in 1..Len(call.tried) :
                  call.outc[call.tried[i]] # "ok" => i = Len(call.tried)

\* two providers were awaited, both threw, and the aggregate error names both
C6_Witness ==
    /\ last_op = "complete"
    /\ call.raised
    /\ Len(call.tried) = 2
    /\ DOMAIN call.errors = Range(call.tried)
    /\ call.errors[call.tried[1]] # call.errors[call.tried[2]]

-----------------------------------------------------------------------------
(***************************************************************************)
(* calculate_quality_score as a state machine: the initial state holds the *)
(* arguments of one call, the only step makes the call.                    *)
(***************************************************************************)
\* the client of a specification that makes no LLM call
LLMIdle ==
    /\ providers = ALL_PROVIDERS
    /\ fallback_order = DEFAULT_FALLBACK_ORDER
    /\ api_keys = {}
    /\ failure_counts = [k \in providers |-> 0]
    /\ circuit_broken = [k \in providers |-> FALSE]
    /\ call = NoCall
    /\ last_op = "init"
    /\ streak = [p \in ALL_PROVIDERS |-> 0]
    /\ tripped = [p \in ALL_PROVIDERS |-> FALSE]

L_body == <<W("rev"), W("yoy"), Txt(600)>>

L_digits == <<Digits(5)>>

L_header == <<Txt(12)>>

\* the parts a text is put together from: table residue, repeated short
\* lines, garbled characters
QTableParts ==
    { <<>>,
      <<L_digits, L_digits, L_digits>>,
      <<L_digits, L_digits, <<>>, L_digits>> }

QHeaderParts ==
    { <<>>,
      <<L_header, L_header, L_header>>,
      <<L_header, L_body, L_header, L_header, L_header>> }

\* with L_body (604 characters and a newline before it): none; 35 of 640
\* (over 5%); 32 of 640 (exactly 5%); 30 of 640 (under 5%)
QGarbledParts ==
    { <<>>,
      << <<Garb(35)>> >>,
      << <<Garb(32), Txt(3)>> >>,
      << <<Garb(30), Txt(5)>> >> }

QTexts ==
    {<<>>} \cup
    { g \o <<L_body>> : g \in QGarbledParts } \cup
    { tb \o hd \o <<L_body>> : tb \in QTableParts, hd \in QHeaderParts } \cup
    { <<L_digits, L_digits, L_digits, L_header, L_header, L_header, L_header,
        <<Garb(100)>>, L_body>> }

KnownFlags == DOMAIN FLAG_PENALTIES

RECURSIVE SetToSeq(_)
SetToSeq(S) ==
    IF S = {} THEN <<>>
    ELSE LET x == CHOOSE y \in S : TRUE IN <<x>> \o SetToSeq(S \ {x})

\* None, every list of distinct flags (known ones and one unknown), and
\* lists that name a flag twice
QFlagLists ==
    {Nil} \cup
    { Some(SetToSeq(S)) : S \in SUBSET (KnownFlags \cup {"FLAG_UNKNOWN"}) } \cup
    { Some(<<f, f>>) : f \in KnownFlags } \cup
    { Some(<<"FLAG_TOC_MISMATCH", "FLAG_TAIL_OVERLAP", "FLAG_TOC_MISMATCH">>) }

QDetails ==
    {Nil} \cup { Some(ScoreDetail(3, 7, d, 604)) :
                    d \in {0, DOTS_EXCESS_THRESHOLD - 1, DOTS_EXCESS_THRESHOLD, 12} }

InitQuality ==
    /\ LLMIdle
    /\ ExtractIdle
    /\ RefineIdle
    /\ WorkerIdle
    /\ OtherIdle
    /\ q_in \in [text : QTexts, quality_flags : QFlagLists, score_detail : QDetails]
    /\ q_out = Nil

CalculateQualityScore ==
    /\ q_out = Nil
    /\ q_out' = Some(calculate_quality_score(q_in.text, q_in.quality_flags,
                                             q_in.score_detail))
    /\ UNCHANGED <<q_in, llmVars, xVars, rVars, wVars, oVars>>

NextQuality == CalculateQualityScore

SpecQuality == InitQuality /\ [][NextQuality]_vars

\* C2: for every input (text, quality_flags, score_detail), the empty text
\* included, calculate_quality_score returns a score between 0 and 100 and
\* needs_review is true exactly when the score is below 60.
C2_ScoreRangeAndReviewGate ==
    q_out # Nil =>
        /\ Val(q_out).score \in 0..100
        /\ Val(q_out).needs_review <=> (Val(q_out).score < 60)

\* a non-empty text whose penalties add up to exactly 40: the score is 60,
\* the lowest that needs no review
C2_Witness ==
    /\ q_out # Nil
    /\ q_in.text # <<>>
    /\ Val(q_out).score = 60
    /\ ~Val(q_out).needs_review

-----------------------------------------------------------------------------
(***************************************************************************)
(* extract_mda_iterative on bounded inputs: the documents are the page     *)
(* lists of at most MaxDocPages pages of PageLib.                          *)
(***************************************************************************)
MaxDocPages == 4

\* a body line: five of the seven keywords, two anchor words
L_mda_body == <<W("rev"), W("yoy"), W("biz"), W("gm"), W("cash"), Txt(600)>>

\* a table of contents: the MD&A starts on printed page 2, the next
\* chapter on printed page 3
P_toc == << <<W("toc")>>, <<W("mda"), Leader(2)>>, <<W("gov"), Leader(3)>> >>

\* a chapter heading and a body that scores 8*5 + 14 = 54 (of ScoreScale)
P_mda == << <<W("sec"), W("mda")>>, L_mda_body >>

\* a bare title and a body of two keywords: 8*2 + 14 = 30
P_weak == << <<W("mda")>>, <<W("rev"), W("yoy"), Txt(520)>> >>

\* the heading of the next chapter and a body of one keyword: 8*1 + 14 = 22
P_gov == << <<W("sec"), W("gov")>>, <<W("rev"), Txt(700)>> >>

\* a heading only a custom start pattern finds, three keywords: 38
P_custom == << <<W("pA")>>, <<W("ind"), W("outl"), W("rev"), Txt(900)>>,
               <<W("sup"), Txt(3)>> >>

PageLib == {P_toc, P_mda, P_weak, P_gov, P_custom}

\* the page lists of at most n pages of S
SeqsUpTo(S, n) == UNION {[1..k -> S] : k \in 0..n}

XDocs == SeqsUpTo(PageLib, MaxDocPages)

\* no page numbers; the printed number of page index i is i + 1; only the
\* first page (printed 3) and the last page (printed 2) carry a number; or
\* the third page carries none and the numbers go on behind it (1, 2, -, 3)
XPageNumbers(pages) ==
    {Nil,
     Some([i \in 1..Len(pages) |-> Some(i)]),
     Some([i \in 1..Len(pages) |->
              IF i = Len(pages) THEN Some(2) ELSE IF i = 1 THEN Some(3) ELSE Nil]),
     Some([i \in 1..Len(pages) |->
              IF i = 3 THEN Nil ELSE IF i > 3 THEN Some(i - 1) ELSE Some(i)])}

\* (max_pages, max_chars): the defaults, one page, 605 characters
XLimits == {<<MAX_PAGES_DEFAULT, MAX_CHARS_DEFAULT>>, <<1, MAX_CHARS_DEFAULT>>,
            <<MAX_PAGES_DEFAULT, 605>>}

\* (custom_start_pattern, custom_end_pattern)
XPatterns == {<<None, None>>, <<"pA", None>>, <<"pA", "sup">>}

InitExtract ==
    /\ LLMIdle
    /\ QualityIdle
    /\ RefineIdle
    /\ WorkerIdle
    /\ OtherIdle
    /\ \E pages \in XDocs, pat \in XPatterns, lim \in XLimits :
          x_in \in [pages : {pages},
                    page_numbers : XPageNumbers(pages),
                    page_break_kind : {"none"},
                    max_pages : {lim[1]},
                    max_chars : {lim[2]},
                    custom_start_pattern : {pat[1]},
                    custom_end_pattern : {pat[2]}]
    /\ x_candidates = <<>>
    /\ x_result = Nil
    /\ x_done = FALSE

\* one call of extract_mda_iterative: x_result is
\* extract_mda_iterative(...), that is SelectBest of the candidates
ExtractMdaIterative ==
    /\ ~x_done
    /\ x_candidates' = Candidates(x_in.pages, x_in.page_numbers, x_in.page_break_kind,
                                  x_in.max_pages, x_in.max_chars,
                                  x_in.custom_start_pattern, x_in.custom_end_pattern)
    /\ x_result' = SelectBest(x_candidates')
    /\ x_done' = TRUE
    /\ UNCHANGED <<x_in, llmVars, qVars, wVars, oVars, rVars>>

NextExtract == ExtractMdaIterative

SpecExtract == InitExtract /\ [][NextExtract]_vars

\* b is not ranked above a: (score, len(mda_raw)) of b is at most that of a
NotRankedAbove(b, a) ==
    \/ b.score < a.score
    \/ b.score = a.score /\ TextLen(b.mda_raw) <= TextLen(a.mda_raw)

\* r is the candidate c, possibly with the cross-check flag appended
IsCandidate(r, c) ==
    /\ [r EXCEPT !.quality_flags = <<>>, !.quality_detail = <<>>]
       = [c EXCEPT !.quality_flags = <<>>, !.quality_detail = <<>>]
    /\ \/ r.quality_flags = c.quality_flags
       \/ r.quality_flags = c.quality_flags \o <<"FLAG_TOC_MISMATCH">>

\* C1: extract_mda_iterative returns none exactly when there is no candidate
\* or no candidate scores above 0.4 (28 of ScoreScale); otherwise it returns
\* one of the candidates, one that no candidate outranks under
\* (score, len(mda_raw)), and its score is above 0.4.
C1_SelectionContract ==
    x_done =>
        /\ (x_result = Nil) <=>
              (\A i \in 1..Len(x_candidates) : x_candidates[i].score <= MIN_BEST_SCORE)
        /\ x_result # Nil =>
              /\ Val(x_result).score > MIN_BEST_SCORE
              /\ \E i \in 1..Len(x_candidates) :
                    /\ IsCandidate(Val(x_result), x_candidates[i])
                    /\ \A j \in 1..Len(x_candidates) :
                          NotRankedAbove(x_candidates[j], x_candidates[i])

\* a call with candidates of different scores whose first candidate is not
\* the best one, and a result
C1_Witness ==
    /\ x_done
    /\ x_result # Nil
    /\ Len(x_candidates) >= 2
    /\ x_candidates[1].score < Val(x_result).score
    /\ \E i \in 1..Len(x_candidates) : x_candidates[i].score <= MIN_BEST_SCORE

-----------------------------------------------------------------------------
(***************************************************************************)
(* SelfRefineLoop.refine (annual_report_mda/adaptive/self_refine.py).      *)
(* One action per awaited step: the start of an iteration with its         *)
(* extraction, the evaluation call, the refinement call.  The two LLM      *)
(* calls go through LLMClient.complete_with_json, that is through          *)
(* complete() with no pinned provider and retry_on_failure true; the       *)
(* environment chooses what each provider does and what the reply holds.   *)
(***************************************************************************)
MaxIterations == 3

\* json.loads of the reply of an evaluation call: Nil when it raises
\* JSONDecodeError, else Some(dict)
EvalReplies ==
    {Nil,
     Some([issues |-> <<"gap">>]),
     Some([total_score |-> 69, issues |-> <<"gap">>]),
     Some([total_score |-> 70, issues |-> <<"none">>])}

\* json.loads of the reply of a refinement call
RefineReplies ==
    {Nil,
     Some([reasoning |-> "keep"]),
     Some([refined_start_pattern |-> "pA", refined_end_pattern |-> "sup"]),
     Some([refined_start_pattern |-> "zz"])}

FallbackMutNoIssue == [total_score |-> 0, issues |-> <<>>, suggestions |-> <<>>]

\* the evaluation that stands in for a reply that is no JSON
FallbackEvaluation == [total_score |-> 0, issues |-> <<"eval_failed">>, suggestions |-> <<>>]

\* extract_mda_iterative(pages, custom_start_pattern=sp, custom_end_pattern=ep)
RefineExtract(pages, sp, ep) ==
    extract_mda_iterative(pages, Nil, "none", MAX_PAGES_DEFAULT, MAX_CHARS_DEFAULT, sp, ep)

\* a document the generic strategy extracts, and one only the custom
\* pattern "pA" extracts
D_generic == <<P_mda, P_gov>>

D_custom == <<P_custom>>

\* (pages, initial_extraction) of the sessions explored
RefineInputs ==
    {[pages |-> D_generic, initial_extraction |-> Nil],
     [pages |-> D_custom, initial_extraction |-> Nil],
     [pages |-> D_custom, initial_extraction |-> RefineExtract(D_custom, "pA", None)]}

\* the client of the session: deepseek and qwen have an API key
RefineLLMInit ==
    /\ providers = ALL_PROVIDERS
    /\ fallback_order = DEFAULT_FALLBACK_ORDER
    /\ api_keys = {"deepseek", "qwen"}
    /\ failure_counts = [k \in providers |-> 0]
    /\ circuit_broken = [k \in providers |-> FALSE]
    /\ call = NoCall
    /\ last_op = "init"
    /\ streak = [p \in ALL_PROVIDERS |-> 0]
    /\ tripped = [p \in ALL_PROVIDERS |-> FALSE]

InitRefine ==
    /\ RefineLLMInit
    /\ QualityIdle
    /\ ExtractIdle
    /\ WorkerIdle
    /\ OtherIdle
    /\ \E inp \in RefineInputs, n \in 1..MaxIterations :
          r_in = [pages |-> inp.pages, initial_extraction |-> inp.initial_extraction,
                  max_iterations |-> n, score_threshold |-> DEFAULT_SCORE_THRESHOLD]
    /\ r_pc = "loop"
    /\ r_iteration = 0
    /\ r_current = r_in.initial_extraction
    /\ r_start_pattern = None
    /\ r_end_pattern = None
    /\ r_history = <<>>
    /\ r_result = Nil
    /\ r_error = None
    /\ r_trace = <<>>

RefineResult(success, extraction, iterations, final_score, history) ==
    [success |-> success, extraction |-> extraction, iterations |-> iterations,
     final_score |-> final_score, history |-> history]

FinalResultMutNoCandidate(current, history) ==
    RefineResult(FALSE, Nil, r_in.max_iterations,
                 IF history # <<>> THEN history[Len(history)].score ELSE 0,
                 history)

\* the return behind the loop (self_refine.py:150-156)
FinalResult(current, history) ==
    RefineResult(FALSE, current, r_in.max_iterations,
                 IF history # <<>> THEN history[Len(history)].score ELSE 0,
                 history)

\* one observed step of the session
Event(op, outcome, score, sp, ep, cand) ==
    [op |-> op, iteration |-> r_iteration, outcome |-> outcome, score |-> score,
     start_pattern |-> sp, end_pattern |-> ep, cand |-> cand]

Return(result) ==
    /\ r_pc' = "returned"
    /\ r_result' = Some(result)
    /\ r_error' = None

Raise(error) ==
    /\ r_pc' = "raised"
    /\ r_result' = Nil
    /\ r_error' = error

\* the start of an iteration (self_refine.py:79-99): the extraction if there
\* is no current candidate, and the return if there is none after it
IterationStart ==
    /\ r_pc = "loop"
    /\ r_iteration < r_in.max_iterations
    /\ r_current' = IF r_current = Nil
                    THEN RefineExtract(r_in.pages, r_start_pattern, r_end_pattern)
                    ELSE r_current
    /\ r_trace' = IF r_current = Nil
                  THEN Append(r_trace,
                              Event("extract", IF r_current' = Nil THEN "none" ELSE "ok",
                                    0, r_start_pattern, r_end_pattern, r_current'))
                  ELSE r_trace
    /\ IF r_current' = Nil
       THEN Return(RefineResult(FALSE, Nil, r_iteration + 1, 0, r_history))
       ELSE r_pc' = "evaluate" /\ UNCHANGED <<r_result, r_error>>
    /\ UNCHANGED <<r_in, r_iteration, r_start_pattern, r_end_pattern, r_history,
                   llmVars, qVars, wVars, oVars, xVars>>

\* what complete_with_json does with the call just made and the parsed reply
JsonOutcome(raised, reply) ==
    IF raised THEN "LLMAllProvidersFailedError"
    ELSE IF reply = Nil THEN "LLMJSONParseError"
    ELSE "ok"

ScoreMutGT(score) == score > r_in.score_threshold

\* score >= self.score_threshold
ScorePasses(score) == score >= r_in.score_threshold

RefineGuardMutAlways(iteration) == iteration < r_in.max_iterations

\* iteration < self.max_iterations - 1
MayRefine(iteration) == iteration < r_in.max_iterations - 1

\* the entry that an evaluation adds to history
HistoryEntry(evaluation) ==
    [iteration |-> r_iteration + 1,
     score |-> DictGet(evaluation, "total_score", 0),
     issues |-> DictGet(evaluation, "issues", <<>>),
     start_pattern |-> r_start_pattern,
     end_pattern |-> r_end_pattern]

\* the body of the iteration from the evaluation that was obtained on
\* (self_refine.py:108-132); entry is its history entry
AfterEvaluation(outcome, entry) ==
    /\ r_history' = Append(r_history, entry)
    /\ r_trace' = Append(r_trace, Event("evaluate", outcome, entry.score,
                                        r_start_pattern, r_end_pattern, r_current))
    /\ IF ScorePasses(entry.score)
       THEN Return(RefineResult(TRUE, r_current, r_iteration + 1, entry.score,
                                r_history'))
       ELSE IF MayRefine(r_iteration)
            THEN r_pc' = "refine" /\ UNCHANGED <<r_result, r_error>>
            ELSE Return(FinalResult(r_current, r_history'))

\* the evaluation call of an iteration (self_refine.py:101-132)
Evaluate ==
    /\ r_pc = "evaluate"
    /\ \E outc \in [Reachable -> {"ok", "timeout"}], reply \in EvalReplies :
          /\ CompleteCall(None, TRUE, outc)
          /\ call'.raised => reply = Nil
          /\ LET outcome == JsonOutcome(call'.raised, reply) IN
             IF outcome = "LLMAllProvidersFailedError"
             THEN /\ Raise(outcome)
                  /\ r_trace' = Append(r_trace, Event("evaluate", outcome, 0,
                                       r_start_pattern, r_end_pattern, r_current))
                  /\ UNCHANGED r_history
             ELSE AfterEvaluation(outcome,
                      HistoryEntry(IF outcome = "ok" THEN Val(reply)
                                   ELSE FallbackEvaluation))
    /\ UNCHANGED <<r_in, r_iteration, r_current, r_start_pattern, r_end_pattern,
                   qVars, wVars, oVars, xVars>>

RefinedPatternsMutKeep(refinement) ==
    [start |-> r_start_pattern, end |-> r_end_pattern]

\* refinement.get("refined_start_pattern"), refinement.get("refined_end_pattern")
RefinedPatterns(refinement) ==
    [start |-> DictGet(refinement, "refined_start_pattern", None),
     end |-> DictGet(refinement, "refined_end_pattern", None)]

\* the refinement call of an iteration (self_refine.py:133-147) and the
\* step of the loop to the next iteration
GetRefinement ==
    /\ r_pc = "refine"
    /\ \E outc \in [Reachable -> {"ok", "timeout"}], reply \in RefineReplies :
          /\ CompleteCall(None, TRUE, outc)
          /\ call'.raised => reply = Nil
          /\ LET outcome == JsonOutcome(call'.raised, reply) IN
             CASE outcome = "LLMAllProvidersFailedError" ->
                    /\ Raise(outcome)
                    /\ r_trace' = Append(r_trace, Event("refine", outcome, 0,
                                                        None, None, r_current))
                    /\ UNCHANGED <<r_iteration, r_current, r_start_pattern,
                                   r_end_pattern>>
               [] outcome = "LLMJSONParseError" ->
                    /\ Return(FinalResult(r_current, r_history))
                    /\ r_trace' = Append(r_trace, Event("refine", outcome, 0,
                                                        None, None, r_current))
                    /\ UNCHANGED <<r_iteration, r_current, r_start_pattern,
                                   r_end_pattern>>
               [] outcome = "ok" ->
                    /\ r_start_pattern' = RefinedPatterns(Val(reply)).start
                    /\ r_end_pattern' = RefinedPatterns(Val(reply)).end
                    /\ r_current' = Nil
                    /\ r_iteration' = r_iteration + 1
                    /\ r_trace' = Append(r_trace,
                          Event("refine", outcome, 0,
                                DictGet(Val(reply), "refined_start_pattern", None),
                                DictGet(Val(reply), "refined_end_pattern", None),
                                r_current))
                    /\ IF r_iteration' < r_in.max_iterations
                       THEN r_pc' = "loop" /\ UNCHANGED <<r_result, r_error>>
                       ELSE Return(FinalResult(r_current', r_history))
    /\ UNCHANGED <<r_in, r_history, qVars, wVars, oVars, xVars>>

NextRefine == IterationStart \/ Evaluate \/ GetRefinement

SpecRefine == InitRefine /\ [][NextRefine]_vars

\* the session has ended, by a return or by an exception that left refine()
SessionOver == r_pc \in {"returned", "raised"}

\* every awaited step of a session completes: the extraction runs in an
\* executor and each network call carries its own timeout.  This is
\* WF_vars(NextRefine) with the enabling condition of NextRefine written
\* out: a step of the session is enabled exactly while r_pc is "loop",
\* "evaluate" or "refine", that is, while the session is not over.
SpecRefineFair == SpecRefine /\ ([]<>SessionOver \/ []<><<NextRefine>>_vars)

-----------------------------------------------------------------------------
(***************************************************************************)
(* Properties of SelfRefineLoop.refine, stated on the observed steps.      *)
(***************************************************************************)
\* the evaluation calls that came back with an evaluation (a reply that is
\* no JSON counts with the score 0 of FallbackEvaluation)
Evaluations ==
    {i \in 1..Len(r_trace) : /\ r_trace[i].op = "evaluate"
                             /\ r_trace[i].outcome # "LLMAllProvidersFailedError"}

Passing == {i \in Evaluations : r_trace[i].score >= r_in.score_threshold}

CountOp(op) == Cardinality({i \in 1..Len(r_trace) : r_trace[i].op = op})

\* C7: refine returns success == true if and only if some iteration's
\* evaluated total_score is >= score_threshold; the session stops at the
\* first such evaluation, and the result carries the candidate that was
\* evaluated in it, its score as final_score and its iteration number.
C7_SuccessIffThresholdReached ==
    /\ \A i \in Passing :
          /\ i = Len(r_trace)
          /\ r_pc = "returned"
          /\ Val(r_result).success
          /\ Val(r_result).extraction = r_trace[i].cand
          /\ Val(r_result).final_score = r_trace[i].score
          /\ Val(r_result).iterations = r_trace[i].iteration + 1
    /\ r_pc = "returned" => (Val(r_result).success <=> Passing # {})

\* a success in a later iteration, after a refinement, with a score equal to
\* the threshold
C7_Witness ==
    /\ r_pc = "returned"
    /\ Val(r_result).success
    /\ Val(r_result).final_score = r_in.score_threshold
    /\ Val(r_result).iterations >= 2
    /\ CountOp("refine") >= 1

C8_Bounds ==
    /\ CountOp("extract") <= r_in.max_iterations
    /\ CountOp("evaluate") <= r_in.max_iterations
    /\ CountOp("refine") <= r_in.max_iterations - 1
    /\ \A i \in 1..Len(r_trace) : r_trace[i].iteration < r_in.max_iterations
    /\ Len(r_history) <= r_in.max_iterations
    /\ r_result # Nil => Len(Val(r_result).history) <= r_in.max_iterations

IsLast(i) == i = Len(r_trace)

\* C9: (a) after an evaluation below the threshold in an iteration that is
\* not the last, the next step of the session is the refinement call;
\* (b) when that call returns patterns, the current candidate is discarded
\* and the next step is an extraction with exactly the returned start and
\* end pattern, whose candidate is the one evaluated next; (c) no
\* refinement call is made in the last iteration: an evaluation below the
\* threshold there ends the session; (d) an extraction is the first step of
\* the session or directly follows a refinement call, never an evaluation.
C9_RefinementFlow ==
    \A i \in 1..Len(r_trace) :
       LET ev == r_trace[i] IN
       /\ (/\ i \in Evaluations
           /\ ev.score < r_in.score_threshold
           /\ ev.iteration < r_in.max_iterations - 1)
          => IF IsLast(i) THEN r_pc = "refine"
             ELSE r_trace[i + 1].op = "refine" /\ r_trace[i + 1].iteration = ev.iteration
       /\ (ev.op = "refine" /\ ev.outcome = "ok")
          => IF IsLast(i)
             THEN /\ r_pc = "loop"
                  /\ r_current = Nil
                  /\ r_start_pattern = ev.start_pattern
                  /\ r_end_pattern = ev.end_pattern
             ELSE /\ r_trace[i + 1].op = "extract"
                  /\ r_trace[i + 1].iteration = ev.iteration + 1
                  /\ r_trace[i + 1].start_pattern = ev.start_pattern
                  /\ r_trace[i + 1].end_pattern = ev.end_pattern
                  /\ i + 2 <= Len(r_trace) =>
                        /\ r_trace[i + 2].op = "evaluate"
                        /\ r_trace[i + 2].cand = r_trace[i + 1].cand
       /\ ev.op = "refine" => ev.iteration < r_in.max_iterations - 1
       /\ (/\ i \in Evaluations
           /\ ev.score < r_in.score_threshold
           /\ ev.iteration = r_in.max_iterations - 1)
          => IsLast(i) /\ r_pc = "returned"
       /\ (ev.op = "extract" /\ i > 1)
          => r_trace[i - 1].op = "refine" /\ r_trace[i - 1].outcome = "ok"

\* a low evaluation, a refinement that returned the patterns "pA" and "sup",
\* the extraction with them and the evaluation of its candidate
C9_Witness ==
    \E i \in 1..Len(r_trace) :
       /\ i + 3 <= Len(r_trace)
       /\ r_trace[i].op = "evaluate" /\ r_trace[i].score < r_in.score_threshold
       /\ r_trace[i + 1].op = "refine" /\ r_trace[i + 1].start_pattern = "pA"
       /\ r_trace[i + 1].end_pattern = "sup"
       /\ r_trace[i + 2].op = "extract" /\ r_trace[i + 2].start_pattern = "pA"
       /\ r_trace[i + 2].cand # Nil
       /\ r_trace[i + 3].op = "evaluate"
       /\ r_trace[i + 3].cand # r_trace[i].cand

\* C10: when every provider fails during an evaluation call, refine() does
\* not end by raising: the iteration is recorded in history with score 0 and
\* the session continues or returns a RefineResult.
C10_EvaluationFailureNotFatal ==
    \A i \in 1..Len(r_trace) :
       (r_trace[i].op = "evaluate" /\ r_trace[i].outcome = "LLMAllProvidersFailedError")
       => /\ r_pc # "raised"
          /\ Len(r_history) >= CountOp("evaluate")
          /\ r_history[CountOp("evaluate")].score = 0


\* the result of a session that returned
Returned == Val(r_result)

\* C11: whenever refine() returns success == false after at least one
\* evaluation has completed (the returned history is not empty), the
\* returned extraction is not none and final_score is the score of the last
\* history entry.
C11_PartialProgressReturned ==
    (/\ r_pc = "returned"
     /\ ~Returned.success
     /\ Returned.history # <<>>)
    => /\ Returned.extraction # Nil
       /\ Returned.final_score = Returned.history[Len(Returned.history)].score

\* entry k of history has score 0 and the one issue of a failed evaluation
\* ("eval_failed" stands for the literal of self_refine.py:106)
IsFallbackEntry(k, iteration) ==
    /\ k <= Len(r_history)
    /\ r_history[k].score = 0
    /\ r_history[k].issues = <<"eval_failed">>
    /\ r_history[k].iteration = iteration + 1

\* the number of evaluation calls among the first i steps
EvaluationsUpTo(i) == Cardinality({j \in 1..i : r_trace[j].op = "evaluate"})

C13_RefinementParseFailureEndsLoop ==
    \A i \in 1..Len(r_trace) :
       (r_trace[i].op = "refine" /\ r_trace[i].outcome = "LLMJSONParseError")
       => /\ IsLast(i)
          /\ r_pc = "returned"
          /\ ~Returned.success
          /\ Returned.history = r_history
          /\ Len(Returned.history) = CountOp("evaluate")
          /\ Returned.extraction # Nil
          /\ Returned.extraction = r_trace[i - 1].cand
          /\ r_trace[i - 1].op = "evaluate"

\* a refinement reply that is no JSON in the second iteration
C13_Witness ==
    /\ r_pc = "returned"
    /\ Len(r_trace) >= 4
    /\ r_trace[Len(r_trace)].op = "refine"
    /\ r_trace[Len(r_trace)].outcome = "LLMJSONParseError"
    /\ Len(Returned.history) = 2


-----------------------------------------------------------------------------
(***************************************************************************)
(* Properties of the result of extract_mda_iterative.                      *)
(***************************************************************************)
\* the result of a call that returned one
XResult == Val(x_result)

\* C14: every ExtractionResult that extract_mda_iterative returns has
\* page_index_end >= page_index_start and
\* page_count = page_index_end - page_index_start.
C14_PageRangeWellFormed ==
    (x_done /\ x_result # Nil)
    => /\ XResult.page_index_end >= XResult.page_index_start
       /\ XResult.page_count = XResult.page_index_end - XResult.page_index_start

\* a call that returns a result although one of its candidates, the TOC
\* range of page numbers that run backwards, ends before it starts
C14_Witness ==
    /\ x_done
    /\ x_result # Nil
    /\ XResult.page_count >= 2
    /\ \E i \in 1..Len(x_candidates) :
          x_candidates[i].page_index_end < x_candidates[i].page_index_start

\* C15: every result that extract_mda_iterative returns, whichever strategy
\* produced it, spans at most max_pages pages and its text has at most
\* max_chars characters.
C15_LimitsHoldForEveryStrategy ==
    (x_done /\ x_result # Nil)
    => /\ XResult.page_count <= x_in.max_pages
       /\ TextLen(XResult.mda_raw) <= x_in.max_chars

\* the first TOC and the first generic candidate of the call
XTocResult == FirstOfType(x_candidates, "toc")

XBodyResult == FirstOfType(x_candidates, "generic")

\* abs(toc_start - body_start) of the call, 0 without both candidates
XPageDiff ==
    IF XTocResult # Nil /\ XBodyResult # Nil
    THEN LET d == Val(XTocResult).page_index_start - Val(XBodyResult).page_index_start
         IN  IF d < 0 THEN -d ELSE d
    ELSE 0

\* C16: the returned result carries FLAG_TOC_MISMATCH, and the page distance
\* in quality_detail, if and only if a toc and a generic candidate were both
\* produced and their page_index_start differ by more than 2; the result is
\* the candidate that ranks first under (score, len(mda_raw)), unchanged but
\* for that flag and that detail.
C16_TocMismatchIsPureSignal ==
    (x_done /\ x_result # Nil)
    => /\ (\E k \in 1..Len(XResult.quality_flags) :
              XResult.quality_flags[k] = "FLAG_TOC_MISMATCH") <=> XPageDiff > 2
       /\ XResult.quality_detail.toc_body_page_diff
             = (IF XPageDiff > 2 THEN Some(XPageDiff) ELSE Nil)
       /\ \E i \in 1..Len(x_candidates) :
             /\ \A j \in 1..Len(x_candidates) :
                   NotRankedAbove(x_candidates[j], x_candidates[i])
             /\ [XResult EXCEPT !.quality_flags = <<>>, !.quality_detail = <<>>]
                = [x_candidates[i] EXCEPT !.quality_flags = <<>>,
                                          !.quality_detail = <<>>]
             /\ XResult.quality_flags
                = x_candidates[i].quality_flags
                  \o (IF XPageDiff > 2 THEN <<"FLAG_TOC_MISMATCH">> ELSE <<>>)
             /\ [XResult.quality_detail EXCEPT !.toc_body_page_diff = Nil]
                = x_candidates[i].quality_detail

\* a result with the flag, with other flags before it
C16_Witness ==
    /\ x_done
    /\ x_result # Nil
    /\ XPageDiff = 3
    /\ Len(XResult.quality_flags) >= 2
    /\ XResult.quality_flags[Len(XResult.quality_flags)] = "FLAG_TOC_MISMATCH"

\* C20: a call of extract_mda_iterative with zero pages does not end with
\* the ordinary none result that means that no candidate was found.
C20_ZeroPagesFailFast ==
    ~(x_done /\ x_in.pages = <<>> /\ x_result = Nil)


-----------------------------------------------------------------------------
(***************************************************************************)
(* The generic scan on documents whose only MD&A title stands on a table   *)
(* of contents page: the calls of SpecExtract on another set of documents. *)
(***************************************************************************)
\* a table of contents whose MD&A entry has lost its leader and its page
\* number (a wrapped line): a bare title between the keyword and two dot
\* lines
P_toc_bare == << <<W("toc")>>, <<W("mda")>>, <<W("gov"), Leader(3)>>,
                 <<W("sup"), Leader(4)>> >>

\* pages without an MD&A title of their own
ScanPageLib == {P_toc_bare, P_gov, P_custom}

ScanDocs == SeqsUpTo(ScanPageLib, MaxDocPages)

InitScan ==
    /\ LLMIdle
    /\ QualityIdle
    /\ RefineIdle
    /\ WorkerIdle
    /\ OtherIdle
    /\ \E pages \in ScanDocs, lim \in XLimits :
          x_in = [pages |-> pages,
                  page_numbers |-> Nil,
                  page_break_kind |-> "none",
                  max_pages |-> lim[1],
                  max_chars |-> lim[2],
                  custom_start_pattern |-> None,
                  custom_end_pattern |-> None]
    /\ x_candidates = <<>>
    /\ x_result = Nil
    /\ x_done = FALSE

SpecScan == InitScan /\ [][NextExtract]_vars

\* the line indexes of page pi whose line contains an MD&A title
TitleLinesOf(pages, pi) ==
    {li \in 0..(Len(PageAt(pages, pi)) - 1) : HasMdaTitle(PageAt(pages, pi)[li + 1])}

\* page pi is a detected table of contents page with exactly one line that
\* contains an MD&A title, and no other page has such a line
OnlyTitleOnTocPage(pages, pi) ==
    /\ is_toc_page(PageAt(pages, pi))
    /\ Cardinality(TitleLinesOf(pages, pi)) = 1
    /\ \A pj \in 0..(Len(pages) - 1) : pj # pi => TitleLinesOf(pages, pj) = {}

\* C17: for a page list of any length, a single page included, whose only
\* line with an MD&A title lies on a detected table of contents page, the
\* generic scan does not take that line as its start heading: no generic
\* candidate starts on that page with that line as hit_start.
C17_TocTitleNeverStartHeading ==
    x_done =>
       \A pi \in 0..(Len(x_in.pages) - 1) :
          OnlyTitleOnTocPage(x_in.pages, pi)
          => \A i \in 1..Len(x_candidates) :
                ~(/\ x_candidates[i].used_rule_type = "generic"
                  /\ x_candidates[i].page_index_start = pi
                  /\ HasMdaTitle(x_candidates[i].hit_start))


-----------------------------------------------------------------------------
(***************************************************************************)
(* The penalty sum of calculate_quality_score.                             *)
(***************************************************************************)
\* the sum of the fixed penalties of a set of known flags
RECURSIVE SumOfFlags(_)
SumOfFlags(S) ==
    IF S = {} THEN 0
    ELSE LET f == CHOOSE x \in S : TRUE IN FLAG_PENALTIES[f] + SumOfFlags(S \ {f})

\* the known flags that occur in the quality_flags of the call
QKnownFlagsPresent ==
    IF q_in.quality_flags = Nil THEN {}
    ELSE {f \in KnownFlags :
             \E i \in 1..Len(Val(q_in.quality_flags)) : Val(q_in.quality_flags)[i] = f}

\* P: one penalty per known flag present, 20 for dots_count >= 10, 15 for
\* table residue, 10 for header noise, 20 for garbled text
QNominalPenalty ==
    SumOfFlags(QKnownFlagsPresent)
    + (IF q_in.score_detail # Nil /\ Val(q_in.score_detail).dots_count >= 10
       THEN 20 ELSE 0)
    + (IF detect_table_residue(q_in.text).detected THEN 15 ELSE 0)
    + (IF detect_header_noise(q_in.text).detected THEN 10 ELSE 0)
    + (IF garbled_over_threshold(q_in.text) THEN 20 ELSE 0)

\* C18: for a non-empty text calculate_quality_score returns
\* score = max(0, 100 - P), where P is the sum of one fixed penalty per
\* known flag present in quality_flags (a flag named twice counts once, an
\* unknown flag not at all), 20 if dots_count >= 10, and the table-residue
\* (15), header-noise (10) and garbled-text (20) penalties that apply; the
\* score is never negative.
C18_AdditivePenaltiesFlooredAtZero ==
    (q_out # Nil /\ q_in.text # <<>>)
    => /\ Val(q_out).score = (IF QNominalPenalty > 100 THEN 0 ELSE 100 - QNominalPenalty)
       /\ Val(q_out).score >= 0

\* a non-empty text with a flag named twice whose penalties exceed 100
C18_Witness ==
    /\ q_out # Nil
    /\ q_in.text # <<>>
    /\ QNominalPenalty > 100
    /\ Val(q_out).score = 0
    /\ detect_table_residue(q_in.text).detected
    /\ q_in.quality_flags # Nil
    /\ Len(Val(q_in.quality_flags)) = 2
    /\ Cardinality(QKnownFlagsPresent) = 1


-----------------------------------------------------------------------------
(***************************************************************************)
(* One job of mda_extractor.py: the worker _extract_one_worker, run in the *)
(* process pool, and the loop of main() that stores what it returned.      *)
(* What load_pages returns (or that it raises) is an input of the job.     *)
(***************************************************************************)
\* MDAUpsertRecord(...) as the worker builds it: quality_score and
\* needs_review are not passed and keep their defaults None and False
MDAUpsertRecord(mda_raw, char_count, page_index_start, page_index_end, page_count, is_truncated, truncation_reason, quality_flags, quality_detail, used_rule_type) ==
    [mda_raw |-> mda_raw,
     char_count |-> char_count,
     page_index_start |-> page_index_start,
     page_index_end |-> page_index_end,
     page_count |-> page_count,
     is_truncated |-> is_truncated,
     truncation_reason |-> truncation_reason,
     quality_flags |-> quality_flags,
     quality_detail |-> quality_detail,
     used_rule_type |-> used_rule_type,
     quality_score |-> Nil,
     needs_review |-> FALSE]

\* the record of a job whose extraction returned None (mda_extractor.py:94-116)
FailedRecord(page_break_kind) ==
    MDAUpsertRecord(Nil, Nil, Nil, Nil, Nil, Nil, None,
                    <<"FLAG_EXTRACT_FAILED">>,
                    [page_break_kind |-> page_break_kind], None)

\* the record of a job whose extraction returned extracted
\* (mda_extractor.py:118-141)
ExtractedRecord(extracted) ==
    MDAUpsertRecord(Some(extracted.mda_raw), Some(TextLen(extracted.mda_raw)),
                    Some(extracted.page_index_start), Some(extracted.page_index_end),
                    Some(extracted.page_count), Some(extracted.is_truncated),
                    extracted.truncation_reason, extracted.quality_flags,
                    [detail |-> extracted.quality_detail,
                     score_detail |-> extracted.score_detail],
                    extracted.used_rule_type)

\* the record for what extract_mda_iterative returned
RecordOf(extracted, page_break_kind) ==
    IF extracted = Nil THEN FailedRecord(page_break_kind)
    ELSE ExtractedRecord(Val(extracted))

\* the pages the jobs load
WorkerPageLib == {P_toc_bare, P_mda, P_gov}

WorkerDocs == SeqsUpTo(WorkerPageLib, MaxDocPages)

InitWorker ==
    /\ LLMIdle
    /\ QualityIdle
    /\ ExtractIdle
    /\ RefineIdle
    /\ OtherIdle
    /\ \E pages \in WorkerDocs, pat \in XPatterns, lim \in XLimits :
          w_in \in [pages : {pages},
                    page_numbers : {Nil},
                    page_break_kind : {"none"},
                    max_pages : {lim[1]},
                    max_chars : {lim[2]},
                    custom_start_pattern : {pat[1]},
                    custom_end_pattern : {pat[2]},
                    load_raises : BOOLEAN]
    /\ w_pc = "submitted"
    /\ w_out = Nil
    /\ mda_text = <<>>
    /\ extraction_errors = <<>>

\* extract_mda_iterative(...) of the job
WorkerExtracted ==
    extract_mda_iterative(w_in.pages, w_in.page_numbers, w_in.page_break_kind,
                          w_in.max_pages, w_in.max_chars,
                          w_in.custom_start_pattern, w_in.custom_end_pattern)

\* _extract_one_worker(payload) and fut.result() in _submit_jobs
\* (mda_extractor.py:72-141, 224-240): an exception of the worker becomes
\* an EXTRACT_EXCEPTION item
ExtractOneWorker ==
    /\ w_pc = "submitted"
    /\ w_out' = IF w_in.load_raises
                THEN Some([ok |-> FALSE, record |-> Nil,
                           error |-> Some([error_type |-> "EXTRACT_EXCEPTION"])])
                ELSE Some([ok |-> TRUE,
                           record |-> Some(RecordOf(WorkerExtracted, w_in.page_break_kind)),
                           error |-> Nil])
    /\ w_pc' = "done"
    /\ UNCHANGED <<w_in, mda_text, extraction_errors, llmVars, qVars, xVars, rVars, oVars>>

\* the loop of main() over the results (mda_extractor.py:439-456)
StoreResult ==
    /\ w_pc = "done"
    /\ IF Val(w_out).ok /\ Val(w_out).record # Nil
       THEN /\ mda_text' = Append(mda_text, Val(Val(w_out).record))
            /\ UNCHANGED extraction_errors
       ELSE /\ extraction_errors' = Append(extraction_errors, Val(Val(w_out).error))
            /\ UNCHANGED mda_text
    /\ w_pc' = "stored"
    /\ UNCHANGED <<w_in, w_out, llmVars, qVars, xVars, rVars, oVars>>

NextWorker == ExtractOneWorker \/ StoreResult

SpecWorker == InitWorker /\ [][NextWorker]_vars

\* the candidates of the job's extraction
WorkerCandidates ==
    Candidates(w_in.pages, w_in.page_numbers, w_in.page_break_kind,
               w_in.max_pages, w_in.max_chars,
               w_in.custom_start_pattern, w_in.custom_end_pattern)

\* the document was loaded and no strategy gave a candidate above the floor
NoCandidateAboveFloor ==
    /\ ~w_in.load_raises
    /\ \A i \in 1..Len(WorkerCandidates) : WorkerCandidates[i].score <= MIN_BEST_SCORE

\* the record the worker returned
WorkerRecord == Val(Val(w_out).record)

\* C19: when no strategy yields a candidate above the score floor, the
\* worker reports an ok outcome whose record has no MD&A text, has
\* FLAG_EXTRACT_FAILED among its quality flags and has quality score 0, and
\* no extraction-error row is written for it.
C19_NoCandidateIsOkOutcome ==
    (w_pc \in {"done", "stored"} /\ NoCandidateAboveFloor)
    => /\ Val(w_out).ok
       /\ Val(w_out).record # Nil
       /\ WorkerRecord.mda_raw = Nil
       /\ \E k \in 1..Len(WorkerRecord.quality_flags) :
             WorkerRecord.quality_flags[k] = "FLAG_EXTRACT_FAILED"
       /\ WorkerRecord.quality_score = Some(0)
       /\ extraction_errors = <<>>


-----------------------------------------------------------------------------
\* C29: on every return path of refine(), RefineResult.iterations is the
\* number of iterations actually executed, that is the number of
\* evaluations recorded in the returned history.
C29_IterationsCountEvaluations ==
    r_pc = "returned" => Returned.iterations = Len(Returned.history)

-----------------------------------------------------------------------------
(***************************************************************************)
(* split_mda_sections (annual_report_mda/section_splitter.py).             *)
(* A string is a sequence of runs [c, n]: n characters of kind c.  The     *)
(* kinds are "x" (a character of running text), "sp" (a blank), "lf" and   *)
(* "cr" (the line separators \n and \r), and "h1", "h3": the characters    *)
(* of a heading that OUTLOOK_PATTERNS[1], OUTLOOK_PATTERNS[3] match.       *)
(***************************************************************************)
Run(c, n) == [c |-> c, n |-> n]

\* str.isspace() of a character of the kind
IsSpace(c) == c \in {"sp", "lf", "cr"}

\* the length of the heading text of each kind: "三、未来发展展望",
\* "未来发展的展望"
HeadingLen(c) == IF c = "h1" THEN 8 ELSE 7

\* the index in OUTLOOK_PATTERNS of the first pattern that matches the
\* heading text of the kind (section_splitter.py:12-24)
PatternIdx(c) == IF c = "h1" THEN 1 ELSE 3

\* len(OUTLOOK_PATTERNS)
OutlookPatternCount == 7

\* len(s)
RECURSIVE StrLen(_)
StrLen(s) == IF s = <<>> THEN 0 ELSE Head(s).n + StrLen(Tail(s))

\* s[:k]
RECURSIVE StrTake(_, _)
StrTake(s, k) ==
    IF s = <<>> \/ k <= 0 THEN <<>>
    ELSE IF Head(s).n <= k THEN <<Head(s)>> \o StrTake(Tail(s), k - Head(s).n)
    ELSE <<Run(Head(s).c, k)>>

\* s[k:]
RECURSIVE StrDrop(_, _)
StrDrop(s, k) ==
    IF s = <<>> \/ k <= 0 THEN s
    ELSE IF Head(s).n <= k THEN StrDrop(Tail(s), k - Head(s).n)
    ELSE <<Run(Head(s).c, Head(s).n - k)>> \o Tail(s)

\* s.lstrip()
RECURSIVE StrLStrip(_)
StrLStrip(s) ==
    IF s = <<>> THEN <<>>
    ELSE IF IsSpace(Head(s).c) THEN StrLStrip(Tail(s))
    ELSE s

\* s.rstrip()
RECURSIVE StrRStrip(_)
StrRStrip(s) ==
    IF s = <<>> THEN <<>>
    ELSE IF IsSpace(s[Len(s)].c) THEN StrRStrip(SubSeq(s, 1, Len(s) - 1))
    ELSE s

\* s.strip()
StrStrip(s) == StrRStrip(StrLStrip(s))

\* s without its first character
DropChar(s) == StrDrop(s, 1)

\* s after the line separator it begins with: \r\n counts as one separator
AfterSeparator(s) ==
    IF Head(s).c = "cr" /\ DropChar(s) # <<>> /\ Head(DropChar(s)).c = "lf"
    THEN DropChar(DropChar(s))
    ELSE DropChar(s)

\* s.splitlines(): the lines without their separators; no empty last line
RECURSIVE SplitLinesFrom(_, _, _)
SplitLinesFrom(s, cur, out) ==
    IF s = <<>> THEN (IF cur = <<>> THEN out ELSE Append(out, cur))
    ELSE IF Head(s).c \in {"lf", "cr"}
         THEN SplitLinesFrom(AfterSeparator(s), <<>>, Append(out, cur))
    ELSE SplitLinesFrom(Tail(s), Append(cur, Head(s)), out)

splitlines(s) == SplitLinesFrom(s, <<>>, <<>>)

\* the kinds of the whole headings in the line
HeadingsIn(line) ==
    {line[i].c : i \in {j \in 1..Len(line) :
                          /\ line[j].c \in {"h1", "h3"}
                          /\ line[j].n = HeadingLen(line[j].c)}}

\* the first pattern_idx whose regex.search(stripped) matches, with the
\* matched text (section_splitter.py:75-77); Nil if no pattern matches
FirstPatternMatch(stripped) ==
    IF "h1" \in HeadingsIn(stripped) THEN Some([pattern_idx |-> 1, group |-> "h1"])
    ELSE IF "h3" \in HeadingsIn(stripped) THEN Some([pattern_idx |-> 3, group |-> "h3"])
    ELSE Nil

\* the test of section_splitter.py:79-82
BetterMatch(pattern_idx, char_offset, best_match, best_pattern_idx) ==
    \/ pattern_idx < best_pattern_idx
    \/ /\ pattern_idx = best_pattern_idx
       /\ (best_match = Nil \/ char_offset < Val(best_match).start)

\* best_match after the line is examined
MatchAfterLine(line, char_offset, best_match, best_pattern_idx) ==
    IF /\ StrStrip(line) # <<>>
       /\ StrLen(StrStrip(line)) <= 80
       /\ FirstPatternMatch(StrStrip(line)) # Nil
       /\ BetterMatch(Val(FirstPatternMatch(StrStrip(line))).pattern_idx,
                      char_offset, best_match, best_pattern_idx)
    THEN Some([start |-> char_offset,
               group |-> Val(FirstPatternMatch(StrStrip(line))).group,
               pattern_idx |-> Val(FirstPatternMatch(StrStrip(line))).pattern_idx])
    ELSE best_match

\* best_pattern_idx that goes with best_match
BestPatternIdx(best_match) ==
    IF best_match = Nil THEN OutlookPatternCount ELSE Val(best_match).pattern_idx

\* the loop over the lines (section_splitter.py:64-96): best_match after it
RECURSIVE SearchLines(_, _, _)
SearchLines(lines, char_offset, best_match) ==
    IF lines = <<>> THEN best_match
    ELSE SearchLines(Tail(lines), char_offset + StrLen(Head(lines)) + 1,
                     MatchAfterLine(Head(lines), char_offset, best_match,
                                    BestPatternIdx(best_match)))

MdaSections(review, outlook, split_keyword, split_position) ==
    [review |-> review, outlook |-> outlook,
     split_keyword |-> split_keyword, split_position |-> split_position]

\* mda_text[:split_pos].rstrip()
ReviewPart(mda, split_pos) == StrRStrip(StrTake(mda, split_pos))

OutlookPartMutSkip(mda, split_pos) == StrStrip(StrDrop(mda, split_pos + 1))

\* mda_text[split_pos:].strip()
OutlookPart(mda, split_pos) == StrStrip(StrDrop(mda, split_pos))

SplitTooShortMutBoth(review, outlook) == StrLen(review) < 500 /\ StrLen(outlook) < 200

\* the test of section_splitter.py:115
SplitTooShort(review, outlook) == StrLen(review) < 500 \/ StrLen(outlook) < 200

\* the return of section_splitter.py:107-128 for a best_match that is not None
SplitAt(mda, best_match) ==
    IF SplitTooShort(ReviewPart(mda, best_match.start), OutlookPart(mda, best_match.start))
    THEN MdaSections(mda, Nil, None, Nil)
    ELSE MdaSections(ReviewPart(mda, best_match.start),
                     Some(OutlookPart(mda, best_match.start)),
                     best_match.group, Some(best_match.start))

split_mda_sections(mda) ==
    IF mda = <<>> \/ StrStrip(mda) = <<>> THEN MdaSections(<<>>, Nil, None, Nil)
    ELSE IF SearchLines(splitlines(mda), 0, Nil) = Nil
         THEN MdaSections(mda, Nil, None, Nil)
    ELSE SplitAt(mda, Val(SearchLines(splitlines(mda), 0, Nil)))

\* ---- the texts the splitter is called with ----
\* the line separators of a text: \n or \r\n
Separators == {<<Run("lf", 1)>>, <<Run("cr", 1), Run("lf", 1)>>}

\* the lines before the heading line, after the first paragraph: none, two
\* short lines, a line with a lower or a higher priority heading, a line
\* over 80 characters that holds a heading, an empty line
EarlierLines(sep) ==
    {<<>>,
     <<Run("x", 10)>> \o sep \o <<Run("x", 12)>> \o sep,
     <<Run("h3", 7)>> \o sep,
     <<Run("h1", 8)>> \o sep \o <<Run("x", 10)>> \o sep,
     <<Run("x", 81), Run("h1", 8)>> \o sep,
     sep}

\* a first paragraph, the earlier lines, the heading line and the outlook
SplitTextOf(n1, sep, earlier, indent, h, n2, trail) ==
    <<Run("x", n1)>> \o sep \o earlier \o indent \o <<Run(h, HeadingLen(h))>>
    \o sep \o <<Run("x", n2)>> \o trail

SplitTexts ==
    {<<>>, <<Run("sp", 3)>>, <<Run("x", 600)>>,
     <<Run("x", 600), Run("lf", 1), Run("x", 90), Run("h1", 8)>>}
    \cup {SplitTextOf(n1, sep, earlier, indent, h, n2, trail) :
            n1 \in {499, 500, 700}, sep \in Separators,
            earlier \in UNION {EarlierLines(s) : s \in Separators},
            indent \in {<<>>, <<Run("sp", 2)>>},
            h \in {"h1", "h3"}, n2 \in {150, 192, 300},
            trail \in {<<>>, <<Run("lf", 1)>>}}

InitSplit ==
    /\ LLMIdle
    /\ QualityIdle
    /\ ExtractIdle
    /\ RefineIdle
    /\ WorkerIdle
    /\ YoyIdle
    /\ FewShotIdle
    /\ FailureIdle
    /\ WeightsIdle
    /\ BatchIdle
    /\ s_in \in SplitTexts
    /\ s_out = Nil

SplitMdaSections ==
    /\ s_out = Nil
    /\ s_out' = Some(split_mda_sections(s_in))
    /\ UNCHANGED <<s_in, llmVars, qVars, xVars, rVars, wVars, yVars, fVars,
                   pVars, kVars, bVars>>

NextSplit == SplitMdaSections

SpecSplit == InitSplit /\ [][NextSplit]_vars

\* a line of the text holds an outlook heading the search accepts
HeadingFound == SearchLines(splitlines(s_in), 0, Nil) # Nil

\* the call has returned and a split was performed
SplitPerformed == s_out # Nil /\ Val(s_out).outlook # Nil

\* C22: split_mda_sections returns a non-null outlook only if review has at
\* least 500 characters and outlook at least 200; a call that does not
\* split a text with an outlook heading returns the unsplit original text as
\* review, with outlook, split_keyword and split_position all null.
C22_SplitOnlyAboveMinimumLengths ==
    s_out # Nil =>
        /\ Val(s_out).outlook # Nil =>
              /\ StrLen(Val(s_out).review) >= 500
              /\ StrLen(Val(Val(s_out).outlook)) >= 200
        /\ (Val(s_out).outlook = Nil /\ HeadingFound) =>
              /\ Val(s_out).review = s_in
              /\ Val(s_out).split_keyword = None
              /\ Val(s_out).split_position = Nil

\* a heading was found, a part was too short and the text came back unsplit
C22_Witness ==
    /\ s_out # Nil
    /\ HeadingFound
    /\ Val(s_out).outlook = Nil
    /\ Val(s_out).review = s_in
    /\ StrLen(s_in) >= 700

\* every character of the string is white space
AllSpace(s) == \A i \in 1..Len(s) : IsSpace(s[i].c)

\* s[a:b]
StrSlice(s, a, b) == StrTake(StrDrop(s, a), b - a)

SplitReview == Val(s_out).review

SplitOutlook == Val(Val(s_out).outlook)

\* the number of characters of the text that are in neither part
SplitRemoved == StrLen(s_in) - StrLen(SplitReview) - StrLen(SplitOutlook)

\* the text is review, e characters of white space before the outlook, the
\* outlook, and white space to the end of the text
RebuiltWithGaps(e) ==
    /\ StrTake(s_in, StrLen(SplitReview)) = SplitReview
    /\ AllSpace(StrSlice(s_in, StrLen(SplitReview), StrLen(SplitReview) + e))
    /\ StrSlice(s_in, StrLen(SplitReview) + e,
                StrLen(SplitReview) + e + StrLen(SplitOutlook)) = SplitOutlook
    /\ AllSpace(StrDrop(s_in, StrLen(SplitReview) + e + StrLen(SplitOutlook)))

\* C23 as stated: whenever a split is performed, the original text is review,
\* then white space only, then outlook: nothing but white space at the join
\* of the two parts is missing from review + outlook.
C23_OnlyJoinWhitespaceRemoved ==
    SplitPerformed => (SplitRemoved >= 0 /\ RebuiltWithGaps(SplitRemoved))

\* C23: whenever a split is performed, the original text is review, white
\* space, outlook, white space: review + outlook is the original text without
\* the white space at the join of the two parts and at the end of the text;
\* no other character is lost, duplicated or reordered.
C23_OnlyJoinAndTrailingWhitespaceRemoved ==
    SplitPerformed =>
        /\ SplitRemoved >= 0
        /\ \E e \in 0..SplitRemoved : RebuiltWithGaps(e)

\* a split that removed white space at the join and at the end of the text
C23_Witness ==
    /\ SplitPerformed
    /\ SplitRemoved >= 2
    /\ ~RebuiltWithGaps(SplitRemoved)
    /\ \E e \in 1..(SplitRemoved - 1) : RebuiltWithGaps(e)

\* the text from split_position on, without its leading white space
FromSplitPosition == StrLStrip(StrDrop(s_in, Val(Val(s_out).split_position)))

\* C24: whenever a split is performed, the text from split_position on
\* begins, after white space, with the matched outlook heading: the offset
\* is where the heading line begins, whatever the line separators are.
C24_SplitPositionAtHeadingLine ==
    SplitPerformed =>
        /\ FromSplitPosition # <<>>
        /\ Head(FromSplitPosition) = Run(Val(s_out).split_keyword,
                                         HeadingLen(Val(s_out).split_keyword))

-----------------------------------------------------------------------------
(***************************************************************************)
(* detect_yoy_change (annual_report_mda/scorer.py:339-431).  Here a text   *)
(* is a sequence of characters, " " the white space among them, and a      *)
(* float that is a quotient of two counts is the pair <<numerator,         *)
(* denominator>>.                                                          *)
(***************************************************************************)
\* YOY_SIMILARITY_THRESHOLD = 0.3
YOY_SIMILARITY_THRESHOLD == <<3, 10>>

\* a < b for two quotients with positive denominators
QLess(a, b) == a[1] * b[2] < b[1] * a[2]

\* a == b for two quotients
QEqual(a, b) == a[1] * b[2] = b[1] * a[2]

\* "".join(text.split())
RECURSIVE Cleaned(_)
Cleaned(text) ==
    IF text = <<>> THEN <<>>
    ELSE IF Head(text) = " " THEN Cleaned(Tail(text))
    ELSE <<Head(text)>> \o Cleaned(Tail(text))

\* get_ngrams(text, 3) for the cleaned text (scorer.py:367-373)
NgramsOfCleaned(cleaned) ==
    IF Len(cleaned) < 3 THEN (IF cleaned # <<>> THEN {cleaned} ELSE {})
    ELSE {SubSeq(cleaned, i, i + 2) : i \in 1..(Len(cleaned) - 2)}

get_ngrams(text) == NgramsOfCleaned(Cleaned(text))

\* intersection / union of scorer.py:381-388
Jaccard(ngrams1, ngrams2) ==
    IF Cardinality(ngrams1 \cup ngrams2) = 0 THEN <<0, 1>>
    ELSE <<Cardinality(ngrams1 \cap ngrams2), Cardinality(ngrams1 \cup ngrams2)>>

calculate_text_similarity(text1, text2) ==
    IF text1 = <<>> \/ text2 = <<>> THEN <<0, 1>>
    ELSE IF text1 = text2 THEN <<1, 1>>
    ELSE IF get_ngrams(text1) = {} \/ get_ngrams(text2) = {} THEN <<0, 1>>
    ELSE Jaccard(get_ngrams(text1), get_ngrams(text2))

IsAbnormalMutLeq(similarity, similarity_threshold) == ~QLess(similarity_threshold, similarity)

\* similarity < similarity_threshold (scorer.py:429)
IsAbnormal(similarity, similarity_threshold) == QLess(similarity, similarity_threshold)

\* the value of the keyword argument similarity_threshold
ThresholdOf(similarity_threshold) ==
    IF similarity_threshold = Nil THEN YOY_SIMILARITY_THRESHOLD
    ELSE Val(similarity_threshold)

detect_yoy_change(current_text, prev_text, similarity_threshold) ==
    IF prev_text = Nil THEN [is_abnormal |-> FALSE, similarity |-> <<1, 1>>]
    ELSE IF current_text = <<>> \/ Val(prev_text) = <<>>
         THEN [is_abnormal |-> FALSE, similarity |-> <<0, 1>>]
    ELSE [is_abnormal |-> IsAbnormal(calculate_text_similarity(current_text, Val(prev_text)),
                                      ThresholdOf(similarity_threshold)),
          similarity |-> calculate_text_similarity(current_text, Val(prev_text))]

\* ---- the texts the detector is called with ----
\* the empty text, white space, texts under three characters, texts with
\* 3, 5, 6 and 7 trigrams of which some are shared, an unrelated text
YoyTexts ==
    {<<>>,
     <<" ", " ">>,
     <<"a", "b">>,
     <<"a", " ", "b">>,
     <<"a", "b", "c", "d", "e">>,
     <<"a", "b", " ", "c", "d", "e">>,
     <<"a", "b", "c", "d", "e", "f", "g">>,
     <<"a", "b", "c", "d", "e", "f", "g", "h">>,
     <<"a", "b", "c", "d", "e", "z", "y", "x", "w">>,
     <<"x", "y", "z", "x", "y", "z">>}

YoyThresholds == {Nil, Some(<<1, 2>>)}

InitYoy ==
    /\ LLMIdle
    /\ QualityIdle
    /\ ExtractIdle
    /\ RefineIdle
    /\ WorkerIdle
    /\ SplitIdle
    /\ FewShotIdle
    /\ FailureIdle
    /\ WeightsIdle
    /\ BatchIdle
    /\ y_in \in [current_text : YoyTexts,
                 prev_text : {Nil} \cup {Some(t) : t \in YoyTexts},
                 similarity_threshold : YoyThresholds]
    /\ y_out = Nil

DetectYoyChange ==
    /\ y_out = Nil
    /\ y_out' = Some(detect_yoy_change(y_in.current_text, y_in.prev_text,
                                       y_in.similarity_threshold))
    /\ UNCHANGED <<y_in, llmVars, qVars, xVars, rVars, wVars, sVars, fVars,
                   pVars, kVars, bVars>>

NextYoy == DetectYoyChange

SpecYoy == InitYoy /\ [][NextYoy]_vars

\* calculate_text_similarity(current, previous) of the call
YoySimilarity == calculate_text_similarity(y_in.current_text, Val(y_in.prev_text))

\* C25: detect_yoy_change returns (false, 1.0) when previous is absent,
\* (false, 0.0) when previous is present and either text is empty, and
\* otherwise (similarity < threshold, similarity) for the similarity of the
\* two texts, the threshold being 0.3 when the caller gives none.
C25_YoyChangeCases ==
    y_out # Nil =>
        IF y_in.prev_text = Nil
        THEN Val(y_out) = [is_abnormal |-> FALSE, similarity |-> <<1, 1>>]
        ELSE IF y_in.current_text = <<>> \/ Val(y_in.prev_text) = <<>>
             THEN Val(y_out) = [is_abnormal |-> FALSE, similarity |-> <<0, 1>>]
        ELSE /\ Val(y_out).similarity = YoySimilarity
             /\ y_in.similarity_threshold = Nil =>
                   (Val(y_out).is_abnormal <=> YoySimilarity[1] * 10 < 3 * YoySimilarity[2])
             /\ y_in.similarity_threshold # Nil =>
                   (Val(y_out).is_abnormal <=>
                       QLess(YoySimilarity, Val(y_in.similarity_threshold)))

\* two different texts whose similarity is exactly 0.3, under the default
\* threshold: not abnormal
C25_Witness ==
    /\ y_out # Nil
    /\ y_in.prev_text # Nil
    /\ y_in.similarity_threshold = Nil
    /\ Val(y_out).similarity = <<3, 10>>
    /\ ~Val(y_out).is_abnormal

-----------------------------------------------------------------------------
(***************************************************************************)
(* FewShotStore (annual_report_mda/adaptive/few_shot.py).                  *)
(***************************************************************************)
FewShotSample(stock_code, year, start_pattern, quality_score) ==
    [stock_code |-> stock_code, year |-> year,
     start_pattern |-> start_pattern, quality_score |-> quality_score]

\* the samples add() is called with
FewShotSamples ==
    {FewShotSample(c, y, p, q) : c \in {"600519", "000001"}, y \in {2022, 2023},
                                 p \in {"section 3"}, q \in {80, 95}}

\* the indexes of the stored samples of the same company and year
\* (few_shot.py:61-62)
SameKeyIndexes(store, sample) ==
    {i \in 1..Len(store) : /\ store[i].stock_code = sample.stock_code
                           /\ store[i].year = sample.year}

\* the first of a non-empty set of indexes
FirstIndex(S) == CHOOSE i \in S : \A j \in S : i <= j

AddMutAppend(store, sample) == Append(store, sample)

\* FewShotStore.add: self._samples after the call (few_shot.py:58-67)
add(store, sample) ==
    IF SameKeyIndexes(store, sample) # {}
    THEN [store EXCEPT ![FirstIndex(SameKeyIndexes(store, sample))] = sample]
    ELSE Append(store, sample)

InitFewShot ==
    /\ LLMIdle
    /\ QualityIdle
    /\ ExtractIdle
    /\ RefineIdle
    /\ WorkerIdle
    /\ SplitIdle
    /\ YoyIdle
    /\ FailureIdle
    /\ WeightsIdle
    /\ BatchIdle
    /\ samples = <<>>

Add ==
    \E sample \in FewShotSamples :
        /\ samples' = add(samples, sample)
        /\ UNCHANGED <<llmVars, qVars, xVars, rVars, wVars, sVars, yVars,
                       pVars, kVars, bVars>>

NextFewShot == Add

SpecFewShot == InitFewShot /\ [][NextFewShot]_vars

\* no two stored samples have the same (stock_code, year)
UniquePerCompanyYear ==
    \A i, j \in 1..Len(samples) :
        (samples[i].stock_code = samples[j].stock_code /\ samples[i].year = samples[j].year)
        => i = j

\* the store after the step is the store before it with the sample put in
\* the place of the stored sample of its key, or appended if there is none
AddedInPlaceOrAppended(sample) ==
    IF \E i \in 1..Len(samples) :
          samples[i].stock_code = sample.stock_code /\ samples[i].year = sample.year
    THEN /\ Len(samples') = Len(samples)
         /\ \A i \in 1..Len(samples) :
               samples'[i] = IF /\ samples[i].stock_code = sample.stock_code
                                /\ samples[i].year = sample.year
                             THEN sample ELSE samples[i]
    ELSE samples' = samples \o <<sample>>

\* C26: after any sequence of add calls the store holds at most one sample
\* per (stock_code, year); an add of a sample whose key is stored replaces
\* that sample in place (same length, every other sample untouched), and an
\* add of a sample with a new key appends it.
C26_OneSamplePerCompanyYear ==
    /\ []UniquePerCompanyYear
    /\ [][\E sample \in FewShotSamples : AddedInPlaceOrAppended(sample)]_vars

\* a store of three samples whose second sample was replaced: it holds the
\* later quality score while its neighbours hold the earlier one
C26_Witness ==
    /\ Len(samples) = 3
    /\ samples[1].quality_score = 80
    /\ samples[2].quality_score = 95
    /\ samples[3].quality_score = 80
    /\ samples[2].stock_code = "600519"
    /\ samples[2].year = 2023

-----------------------------------------------------------------------------
(***************************************************************************)
(* FailurePatternStore (annual_report_mda/adaptive/failure_patterns.py).   *)
(* An error message is the set of the key words of _classify_failure it    *)
(* contains.                                                               *)
(***************************************************************************)
\* the number of add_failure calls explored
MaxFailures == 3

FailurePattern(pattern_id, description, exclusion_rule, occurrences) ==
    [pattern_id |-> pattern_id, description |-> description,
     exclusion_rule |-> exclusion_rule, occurrences |-> occurrences]

\* f"OTHER_{error_type}"
OtherPatternId(error_type) ==
    IF error_type = "PARSE_ERROR" THEN "OTHER_PARSE_ERROR"
    ELSE "OTHER_EXTRACT_EXCEPTION"

\* _classify_failure (failure_patterns.py:82-98)
classify_failure(error_type, error_message) ==
    IF "toc" \in error_message THEN "TOC_PARSE_FAILED"
    ELSE IF "boundary" \in error_message THEN "BOUNDARY_DETECTION_FAILED"
    ELSE IF "empty" \in error_message THEN "EMPTY_RESULT"
    ELSE IF "garbled" \in error_message THEN "ENCODING_ERROR"
    ELSE IF "timeout" \in error_message THEN "TIMEOUT_ERROR"
    ELSE IF "api" \in error_message \/ "rate" \in error_message THEN "API_ERROR"
    ELSE OtherPatternId(error_type)

\* the indexes of the patterns with the id
PatternIndexes(store, pattern_id) ==
    {i \in 1..Len(store) : store[i].pattern_id = pattern_id}

AddFailureMutAppend(store, error_type, error_message) ==
    Append(store, FailurePattern(classify_failure(error_type, error_message),
                                 <<error_type, error_message>>, "", 1))

\* add_failure: self._patterns after the call (failure_patterns.py:53-80)
add_failure(store, error_type, error_message) ==
    IF PatternIndexes(store, classify_failure(error_type, error_message)) # {}
    THEN [store EXCEPT
            ![FirstIndex(PatternIndexes(store, classify_failure(error_type, error_message)))].occurrences = @ + 1]
    ELSE Append(store, FailurePattern(classify_failure(error_type, error_message),
                                      <<error_type, error_message>>, "", 1))

\* update_exclusion_rule: self._patterns after the call
\* (failure_patterns.py:112-118)
update_exclusion_rule(store, pattern_id, rule) ==
    IF PatternIndexes(store, pattern_id) # {}
    THEN [store EXCEPT ![FirstIndex(PatternIndexes(store, pattern_id))].exclusion_rule = rule]
    ELSE store

FailureErrorTypes == {"PARSE_ERROR", "EXTRACT_EXCEPTION"}

FailureMessages ==
    {{}, {"toc"}, {"toc", "empty"}, {"empty"}, {"timeout", "api"}, {"rate"}}

InitFailure ==
    /\ LLMIdle
    /\ QualityIdle
    /\ ExtractIdle
    /\ RefineIdle
    /\ WorkerIdle
    /\ SplitIdle
    /\ YoyIdle
    /\ FewShotIdle
    /\ WeightsIdle
    /\ BatchIdle
    /\ patterns = <<>>
    /\ failures = 0

AddFailure ==
    /\ failures < MaxFailures
    /\ \E error_type \in FailureErrorTypes, error_message \in FailureMessages :
          patterns' = add_failure(patterns, error_type, error_message)
    /\ failures' = failures + 1
    /\ UNCHANGED <<llmVars, qVars, xVars, rVars, wVars, sVars, yVars, fVars,
                   kVars, bVars>>

UpdateExclusionRule ==
    /\ \E i \in 1..Len(patterns) :
          patterns' = update_exclusion_rule(patterns, patterns[i].pattern_id, "skip the contents page")
    /\ UNCHANGED <<failures, llmVars, qVars, xVars, rVars, wVars, sVars, yVars,
                   fVars, kVars, bVars>>

NextFailure == AddFailure \/ UpdateExclusionRule

SpecFailure == InitFailure /\ [][NextFailure]_vars

\* sum(p.occurrences for p in patterns)
RECURSIVE TotalOccurrences(_)
TotalOccurrences(store) ==
    IF store = <<>> THEN 0 ELSE Head(store).occurrences + TotalOccurrences(Tail(store))

\* pattern ids are pairwise distinct and the occurrences add up to the
\* number of add_failure calls
FailureCountsConsistent ==
    /\ \A i, j \in 1..Len(patterns) :
          patterns[i].pattern_id = patterns[j].pattern_id => i = j
    /\ TotalOccurrences(patterns) = failures

\* the step of an add_failure call for a failure classified as pattern_id:
\* the pattern of that id has one occurrence more and is otherwise as
\* before, or it is new, with one occurrence and an empty exclusion rule
FailureCounted(pattern_id) ==
    IF \E i \in 1..Len(patterns) : patterns[i].pattern_id = pattern_id
    THEN /\ Len(patterns') = Len(patterns)
         /\ \A i \in 1..Len(patterns) :
               patterns'[i] = IF patterns[i].pattern_id = pattern_id
                              THEN [pattern_id |-> pattern_id,
                                    description |-> patterns[i].description,
                                    exclusion_rule |-> patterns[i].exclusion_rule,
                                    occurrences |-> patterns[i].occurrences + 1]
                              ELSE patterns[i]
    ELSE /\ Len(patterns') = Len(patterns) + 1
         /\ SubSeq(patterns', 1, Len(patterns)) = patterns
         /\ patterns'[Len(patterns')].pattern_id = pattern_id
         /\ patterns'[Len(patterns')].occurrences = 1
         /\ patterns'[Len(patterns')].exclusion_rule = ""

\* the ids _classify_failure gives
FailurePatternIds ==
    {"TOC_PARSE_FAILED", "BOUNDARY_DETECTION_FAILED", "EMPTY_RESULT",
     "ENCODING_ERROR", "TIMEOUT_ERROR", "API_ERROR", "OTHER_PARSE_ERROR",
     "OTHER_EXTRACT_EXCEPTION"}

\* C27: after any sequence of add_failure calls on an initially empty store
\* the pattern ids are pairwise distinct and the occurrence counts add up to
\* the number of calls; each call increments by 1 the count of the pattern
\* whose id is the classification of the failure, leaving its description
\* and exclusion rule unchanged, or creates that pattern with count 1 and an
\* empty exclusion rule.
C27_OccurrencesCountFailures ==
    /\ []FailureCountsConsistent
    /\ [][failures' # failures =>
            \E pattern_id \in FailurePatternIds : FailureCounted(pattern_id)]_vars

\* a pattern with a given exclusion rule was counted twice beside another
C27_Witness ==
    /\ failures = 3
    /\ Len(patterns) = 2
    /\ patterns[1].pattern_id = "TOC_PARSE_FAILED"
    /\ patterns[1].occurrences = 2
    /\ patterns[1].exclusion_rule # ""
    /\ patterns[2].pattern_id = "OTHER_PARSE_ERROR"

-----------------------------------------------------------------------------
(***************************************************************************)
(* StrategyWeights (annual_report_mda/adaptive/strategy_weights.py).       *)
(* A weight is the quotient <<numerator, denominator>>.                    *)
(***************************************************************************)
\* the number of record() calls explored
MaxRecords == 3

STRATEGIES == {"generic", "toc", "custom", "llm_learned"}

\* the strategy names the methods are called with
StrategyNames == STRATEGIES \cup {"ocr"}

\* {"attempts": 0, "success": 0}
NoStats == [attempts |-> 0, success |-> 0]

\* self._stats after __init__ with no stored file (strategy_weights.py:20-39)
InitialStats == [s \in STRATEGIES |-> NoStats]

\* the function f with the value v at the key k
WithKey(f, k, v) == [x \in DOMAIN f \cup {k} |-> IF x = k THEN v ELSE f[x]]

\* the entry of the strategy, created by record() if absent
\* (strategy_weights.py:49-50)
StatsOf(st, strategy) == IF strategy \in DOMAIN st THEN st[strategy] ELSE NoStats

RecordMutAlwaysSuccess(st, strategy, success) ==
    WithKey(st, strategy, [attempts |-> StatsOf(st, strategy).attempts + 1,
                           success |-> StatsOf(st, strategy).success + 1])

\* record: self._stats after the call (strategy_weights.py:47-54)
record(st, strategy, success) ==
    WithKey(st, strategy,
            [attempts |-> StatsOf(st, strategy).attempts + 1,
             success |-> StatsOf(st, strategy).success + (IF success THEN 1 ELSE 0)])

Max(a, b) == IF a > b THEN a ELSE b

\* a + b for two quotients
QPlus(a, b) == <<a[1] * b[2] + b[1] * a[2], a[2] * b[2]>>

\* get_weight (strategy_weights.py:61-78)
get_weight(st, strategy) ==
    IF strategy \notin DOMAIN st THEN <<1, 2>>
    ELSE QPlus(<<st[strategy].success, Max(st[strategy].attempts, 1)>>,
               <<1, st[strategy].attempts + 10>>)

InitWeights ==
    /\ LLMIdle
    /\ QualityIdle
    /\ ExtractIdle
    /\ RefineIdle
    /\ WorkerIdle
    /\ SplitIdle
    /\ YoyIdle
    /\ FewShotIdle
    /\ FailureIdle
    /\ BatchIdle
    /\ stats = InitialStats
    /\ records = [s \in StrategyNames |-> NoStats]

\* the number of record() calls made
RECURSIVE SumAttempts(_, _)
SumAttempts(rec, names) ==
    IF names = {} THEN 0
    ELSE rec[CHOOSE s \in names : TRUE].attempts
         + SumAttempts(rec, names \ {CHOOSE s \in names : TRUE})

Record ==
    /\ SumAttempts(records, StrategyNames) < MaxRecords
    /\ \E strategy \in StrategyNames, success \in BOOLEAN :
          /\ stats' = record(stats, strategy, success)
          /\ records' = [records EXCEPT
                            ![strategy].attempts = @ + 1,
                            ![strategy].success = @ + (IF success THEN 1 ELSE 0)]
    /\ UNCHANGED <<llmVars, qVars, xVars, rVars, wVars, sVars, yVars, fVars,
                   pVars, bVars>>

NextWeights == Record

SpecWeights == InitWeights /\ [][NextWeights]_vars

\* successes/max(attempts,1) + 1/(attempts+10) for the calls made so far
WeightByCalls(s) ==
    <<records[s].success * (records[s].attempts + 10)
        + (IF records[s].attempts > 1 THEN records[s].attempts ELSE 1),
      (IF records[s].attempts > 1 THEN records[s].attempts ELSE 1)
        * (records[s].attempts + 10)>>

\* of two strategies of S with equal attempts the one with more successes
\* has the strictly greater weight
MoreSuccessesWeighMore(S) ==
    \A s, t \in S :
        (records[s].attempts = records[t].attempts /\ records[s].success < records[t].success)
        => QLess(get_weight(stats, s), get_weight(stats, t))

\* C28 as stated: for every strategy name, recorded or not, get_weight is
\* successes/max(attempts,1) + 1/(attempts+10) for the record calls made so
\* far, and with equal attempts more successes give a strictly greater
\* weight.
C28_WeightFormulaForEveryName ==
    /\ \A s \in StrategyNames : QEqual(get_weight(stats, s), WeightByCalls(s))
    /\ MoreSuccessesWeighMore(StrategyNames)

\* C28: for every strategy of STRATEGIES and every strategy that was
\* recorded, get_weight is successes/max(attempts,1) + 1/(attempts+10) for
\* the record calls made so far, and of two such strategies with equal
\* attempts the one with more successes has the strictly greater weight; for
\* any other name get_weight is 0.5.
C28_WeightFormulaForKnownStrategies ==
    /\ \A s \in StrategyNames :
          IF s \in STRATEGIES \/ records[s].attempts > 0
          THEN QEqual(get_weight(stats, s), WeightByCalls(s))
          ELSE get_weight(stats, s) = <<1, 2>>
    /\ MoreSuccessesWeighMore({s \in StrategyNames :
                                 s \in STRATEGIES \/ records[s].attempts > 0})

\* two strategies recorded once each, one with a success, and a name that
\* was never recorded
C28_Witness ==
    /\ records["toc"] = [attempts |-> 1, success |-> 1]
    /\ records["ocr"] = [attempts |-> 1, success |-> 0]
    /\ records["generic"].attempts = 0
    /\ QLess(get_weight(stats, "ocr"), get_weight(stats, "toc"))

-----------------------------------------------------------------------------
(***************************************************************************)
(* main() of mda_extractor.py: the single-file mode and the batch mode     *)
(* over the worker pool, with the incremental skip of data_manager.py.     *)
(* A file is [path, stock_code, year, sha256, outcome]: what               *)
(* _infer_stock_year and compute_file_sha256 give for it, and what         *)
(* _extract_one_worker does with it: "record" (an MD&A text of chars       *)
(* characters is extracted), "failed" (no candidate) or "raises".          *)
(***************************************************************************)
\* the number of files of a run
MaxFiles == 3

SUCCESS_CHAR_COUNT_MIN == 500

File(path, stock_code, year, sha256, outcome, chars) ==
    [path |-> path, stock_code |-> stock_code, year |-> year,
     sha256 |-> sha256, outcome |-> outcome, chars |-> chars]

\* the files of the scanned directory, in the order of their paths
FileLib ==
    <<File("a/000001_2022.txt", "000001", Some(2022), "h2", "failed", 0),
      File("a/600000_2023.txt", "600000", Some(2023), "h4", "raises", 0),
      File("a/600519_2023.txt", "600519", Some(2023), "h1", "record", 800),
      File("a/notes.txt", None, Nil, "h3", "record", 600),
      File("b/600519_2023.txt", "600519", Some(2023), "h1", "record", 800)>>

\* a row of the table mda_text
MdaRow(stock_code, year, source_sha256, source_path, mda_raw, char_count) ==
    [stock_code |-> stock_code, year |-> year, source_sha256 |-> source_sha256,
     source_path |-> source_path, mda_raw |-> mda_raw, char_count |-> char_count]

\* the tables main() may find: empty; a successful record of the third
\* file; a failed record of it; a short record of it; a successful record of
\* an earlier version of it (another hash); a successful record without
\* char_count; a failed record of the first file
StoredRows ==
    {<<>>,
     <<MdaRow("600519", 2023, "h1", "a/600519_2023.txt", Some(<<Run("x", 800)>>), Some(800))>>,
     <<MdaRow("600519", 2023, "h1", "a/600519_2023.txt", Nil, Nil)>>,
     <<MdaRow("600519", 2023, "h1", "a/600519_2023.txt", Some(<<Run("x", 499)>>), Some(499))>>,
     <<MdaRow("600519", 2023, "h0", "a/600519_2023.txt", Some(<<Run("x", 800)>>), Some(800))>>,
     <<MdaRow("600519", 2023, "h1", "a/600519_2023.txt", Some(<<Run("x", 500)>>), Nil)>>,
     <<MdaRow("000001", 2022, "h2", "a/000001_2022.txt", Nil, Nil),
       MdaRow("600519", 2023, "h1", "a/600519_2023.txt", Some(<<Run("x", 500)>>), Some(500))>>}

\* the rows the SELECT of should_skip_incremental finds
RowsOfKey(rows, stock_code, year, source_sha256) ==
    {i \in 1..Len(rows) : /\ rows[i].stock_code = stock_code
                          /\ rows[i].year = year
                          /\ rows[i].source_sha256 = source_sha256}

\* the test on the row fetched (data_manager.py:94-99)
RowIsSuccessful(row, min_char_count) ==
    IF row.mda_raw = Nil THEN FALSE
    ELSE IF row.char_count = Nil THEN StrLen(Val(row.mda_raw)) >= min_char_count
    ELSE Val(row.char_count) >= min_char_count

ShouldSkipMutAnyRow(rows, stock_code, year, source_sha256) ==
    RowsOfKey(rows, stock_code, year, source_sha256) # {}

\* should_skip_incremental (data_manager.py:73-99)
should_skip_incremental(rows, stock_code, year, source_sha256) ==
    IF RowsOfKey(rows, stock_code, year, source_sha256) = {} THEN FALSE
    ELSE RowIsSuccessful(rows[FirstIndex(RowsOfKey(rows, stock_code, year, source_sha256))],
                         SUCCESS_CHAR_COUNT_MIN)

\* upsert_mda_text: the table after INSERT ... ON CONFLICT (stock_code,
\* year, source_sha256) DO UPDATE (data_manager.py:102-190)
upsert_mda_text(rows, rec) ==
    IF RowsOfKey(rows, rec.stock_code, rec.year, rec.source_sha256) # {}
    THEN [rows EXCEPT ![FirstIndex(RowsOfKey(rows, rec.stock_code, rec.year,
                                             rec.source_sha256))] = rec]
    ELSE Append(rows, rec)

\* an entry of jobs and of results
Item(ok, payload, rec, error) ==
    [ok |-> ok, payload |-> payload, record |-> rec, error |-> error]

ErrorRow(stock_code, year, source_path, source_sha256, error_type) ==
    [stock_code |-> stock_code, year |-> year, source_path |-> source_path,
     source_sha256 |-> source_sha256, error_type |-> error_type]

\* what _extract_one_worker returns for the file (mda_extractor.py:72-147)
WorkerReturn(f) ==
    IF f.outcome = "record"
    THEN Item(TRUE, Nil,
              Some(MdaRow(f.stock_code, Val(f.year), f.sha256, f.path,
                          Some(<<Run("x", f.chars)>>), Some(StrLen(<<Run("x", f.chars)>>)))),
              Nil)
    ELSE Item(TRUE, Nil,
              Some(MdaRow(f.stock_code, Val(f.year), f.sha256, f.path, Nil, Nil)), Nil)

\* the entry of results for a future that raised (mda_extractor.py:228-240)
ExceptionItem(f) ==
    Item(FALSE, Nil, Nil,
         Some(ErrorRow(f.stock_code, f.year, f.path, f.sha256, "EXTRACT_EXCEPTION")))

\* what the loop over as_completed appends for the future of the file
FutureResult(f) == IF f.outcome = "raises" THEN ExceptionItem(f) ELSE WorkerReturn(f)

\* the first loop of _submit_jobs (mda_extractor.py:161-211): jobs after
\* the paths from index i on
RECURSIVE BuildJobs(_, _, _, _)
BuildJobs(paths, i, incremental, rows) ==
    IF i > Len(paths) THEN <<>>
    ELSE IF paths[i].stock_code = None \/ paths[i].year = Nil
         THEN <<Item(FALSE, Nil, Nil,
                     Some(ErrorRow(None, Nil, paths[i].path, None, "PARSE_ERROR")))>>
              \o BuildJobs(paths, i + 1, incremental, rows)
    ELSE IF incremental /\ should_skip_incremental(rows, paths[i].stock_code,
                                                   Val(paths[i].year), paths[i].sha256)
         THEN BuildJobs(paths, i + 1, incremental, rows)
    ELSE <<Item(TRUE, Some(paths[i]), Nil, Nil)>>
         \o BuildJobs(paths, i + 1, incremental, rows)

\* the jobs with a payload and those without
PayloadJobs(js) == {i \in 1..Len(js) : js[i].payload # Nil}

JobsWithoutPayloadMutNone(js) == <<>>

RECURSIVE JobsWithoutPayload(_)
JobsWithoutPayload(js) ==
    IF js = <<>> THEN <<>>
    ELSE IF Head(js).payload = Nil THEN <<Head(js)>> \o JobsWithoutPayload(Tail(js))
    ELSE JobsWithoutPayload(Tail(js))

\* the SELECTs of the first loop: one per path with a stock code and a year
RECURSIVE SelectsOf(_, _)
SelectsOf(paths, incremental) ==
    IF paths = <<>> \/ ~incremental THEN <<>>
    ELSE IF Head(paths).stock_code = None \/ Head(paths).year = Nil
         THEN SelectsOf(Tail(paths), incremental)
    ELSE <<[op |-> "select", path |-> Head(paths).path]>> \o SelectsOf(Tail(paths), incremental)

\* the sorted paths made of the files of FileLib with the indexes of S
RECURSIVE PathsOf(_, _)
PathsOf(S, i) ==
    IF i > Len(FileLib) THEN <<>>
    ELSE IF i \in S THEN <<FileLib[i]>> \o PathsOf(S, i + 1)
    ELSE PathsOf(S, i + 1)

BatchInputs ==
    {[mode |-> "dir", paths |-> PathsOf(S, 1), incremental |-> inc,
      workers |-> w, rows |-> rows] :
        S \in {T \in SUBSET (1..Len(FileLib)) : Cardinality(T) <= MaxFiles},
        inc \in BOOLEAN, w \in {0, 2}, rows \in StoredRows}
    \cup
    {[mode |-> "text", paths |-> <<FileLib[i]>>, incremental |-> inc,
      workers |-> 4, rows |-> rows] :
        i \in 1..Len(FileLib), inc \in BOOLEAN, rows \in StoredRows}

InitBatch ==
    /\ LLMIdle
    /\ QualityIdle
    /\ ExtractIdle
    /\ RefineIdle
    /\ SplitIdle
    /\ YoyIdle
    /\ FewShotIdle
    /\ FailureIdle
    /\ WeightsIdle
    /\ w_in = [pages |-> <<>>, page_numbers |-> Nil, page_break_kind |-> "none",
               max_pages |-> MAX_PAGES_DEFAULT, max_chars |-> MAX_CHARS_DEFAULT,
               custom_start_pattern |-> None, custom_end_pattern |-> None]
    /\ w_pc = "idle"
    /\ w_out = Nil
    /\ b_in \in BatchInputs
    /\ mda_text = b_in.rows
    /\ extraction_errors = <<>>
    /\ b_pc = "start"
    /\ jobs = <<>>
    /\ futures = <<>>
    /\ results = <<>>
    /\ b_next = 1
    /\ db_log = <<>>

\* what every action of the run leaves alone
BatchFrame ==
    UNCHANGED <<b_in, w_in, w_pc, w_out, llmVars, qVars, xVars, rVars, sVars,
                yVars, fVars, pVars, kVars>>

\* the single-file mode of main() (mda_extractor.py:340-420)
MainText ==
    /\ b_pc = "start"
    /\ b_in.mode = "text"
    /\ IF b_in.paths[1].stock_code = None \/ b_in.paths[1].year = Nil
       THEN /\ b_pc' = "aborted"
            /\ UNCHANGED <<results, mda_text, extraction_errors, db_log>>
       ELSE IF /\ b_in.incremental
               /\ should_skip_incremental(mda_text, b_in.paths[1].stock_code,
                                          Val(b_in.paths[1].year), b_in.paths[1].sha256)
            THEN /\ b_pc' = "exit"
                 /\ db_log' = SelectsOf(b_in.paths, b_in.incremental)
                 /\ UNCHANGED <<results, mda_text, extraction_errors>>
       ELSE IF b_in.paths[1].outcome = "raises"
            THEN /\ b_pc' = "raised"
                 /\ results' = <<ExceptionItem(b_in.paths[1])>>
                 /\ extraction_errors' = Append(extraction_errors,
                                                Val(ExceptionItem(b_in.paths[1]).error))
                 /\ db_log' = SelectsOf(b_in.paths, b_in.incremental)
                              \o <<[op |-> "error", path |-> b_in.paths[1].path]>>
                 /\ UNCHANGED mda_text
       ELSE /\ b_pc' = "exit"
            /\ results' = <<WorkerReturn(b_in.paths[1])>>
            /\ mda_text' = upsert_mda_text(mda_text, Val(WorkerReturn(b_in.paths[1]).record))
            /\ db_log' = SelectsOf(b_in.paths, b_in.incremental)
                         \o <<[op |-> "upsert", path |-> b_in.paths[1].path]>>
            /\ UNCHANGED extraction_errors
    /\ UNCHANGED <<jobs, futures, b_next>>
    /\ BatchFrame

\* _submit_jobs up to the submission of the futures
\* (mda_extractor.py:159-223)
SubmitJobs ==
    /\ b_pc = "start"
    /\ b_in.mode = "dir"
    /\ jobs' = BuildJobs(b_in.paths, 1, b_in.incremental, mda_text)
    /\ db_log' = SelectsOf(b_in.paths, b_in.incremental)
    /\ IF b_in.workers > 0
       THEN /\ b_pc' = "pool"
            /\ futures' = [i \in PayloadJobs(jobs') |-> "pending"]
       ELSE /\ b_pc' = "aborted"
            /\ UNCHANGED futures
    /\ UNCHANGED <<results, b_next, mda_text, extraction_errors>>
    /\ BatchFrame

\* a process of the pool takes a pending task
TaskStarts(i) ==
    /\ b_pc = "pool"
    /\ futures[i] = "pending"
    /\ Cardinality({j \in DOMAIN futures : futures[j] = "running"}) < b_in.workers
    /\ futures' = [futures EXCEPT ![i] = "running"]
    /\ UNCHANGED <<b_pc, jobs, results, b_next, mda_text, extraction_errors, db_log>>
    /\ BatchFrame

\* _extract_one_worker returns or raises in the process of the pool
TaskCompletes(i) ==
    /\ b_pc = "pool"
    /\ futures[i] = "running"
    /\ futures' = [futures EXCEPT ![i] = "finished"]
    /\ UNCHANGED <<b_pc, jobs, results, b_next, mda_text, extraction_errors, db_log>>
    /\ BatchFrame

\* as_completed yields a finished future to the parent
\* (mda_extractor.py:224-240)
CollectResult(i) ==
    /\ b_pc = "pool"
    /\ futures[i] = "finished"
    /\ futures' = [futures EXCEPT ![i] = "collected"]
    /\ results' = Append(results, FutureResult(Val(jobs[i].payload)))
    /\ UNCHANGED <<b_pc, jobs, b_next, mda_text, extraction_errors, db_log>>
    /\ BatchFrame

\* the end of _submit_jobs (mda_extractor.py:242-246)
ReturnResults ==
    /\ b_pc = "pool"
    /\ \A i \in DOMAIN futures : futures[i] = "collected"
    /\ results' = results \o JobsWithoutPayload(jobs)
    /\ b_pc' = "store"
    /\ UNCHANGED <<jobs, futures, b_next, mda_text, extraction_errors, db_log>>
    /\ BatchFrame

\* one turn of the loop of main() over results (mda_extractor.py:441-458)
StoreItem ==
    /\ b_pc = "store"
    /\ b_next <= Len(results)
    /\ IF results[b_next].ok /\ results[b_next].record # Nil
       THEN /\ mda_text' = upsert_mda_text(mda_text, Val(results[b_next].record))
            /\ db_log' = Append(db_log, [op |-> "upsert",
                                         path |-> Val(results[b_next].record).source_path])
            /\ UNCHANGED extraction_errors
       ELSE /\ extraction_errors' = Append(extraction_errors, Val(results[b_next].error))
            /\ db_log' = Append(db_log, [op |-> "error",
                                         path |-> Val(results[b_next].error).source_path])
            /\ UNCHANGED mda_text
    /\ b_next' = b_next + 1
    /\ UNCHANGED <<b_pc, jobs, futures, results>>
    /\ BatchFrame

\* main() returns (mda_extractor.py:460-461)
MainReturns ==
    /\ b_pc = "store"
    /\ b_next > Len(results)
    /\ b_pc' = "exit"
    /\ UNCHANGED <<jobs, futures, results, b_next, mda_text, extraction_errors, db_log>>
    /\ BatchFrame

NextBatch ==
    \/ MainText
    \/ SubmitJobs
    \/ \E i \in DOMAIN futures : TaskStarts(i)
    \/ \E i \in DOMAIN futures : TaskCompletes(i)
    \/ \E i \in DOMAIN futures : CollectResult(i)
    \/ ReturnResults
    \/ StoreItem
    \/ MainReturns

SpecBatch == InitBatch /\ [][NextBatch]_vars

\* the path an entry of results is about
ItemPath(item) ==
    IF item.record # Nil THEN Val(item.record).source_path
    ELSE Val(item.error).source_path

\* _extract_one_worker was called for the file
ExtractionRun(f) == \E k \in 1..Len(results) : ItemPath(results[k]) = f.path

\* the number of rows written for the file, as records and as errors
WritesOf(f, op) ==
    Cardinality({k \in 1..Len(db_log) : db_log[k].op = op /\ db_log[k].path = f.path})

\* the character count of a stored row
CharCountOf(row) ==
    IF row.char_count # Nil THEN Val(row.char_count) ELSE StrLen(Val(row.mda_raw))

\* the table held, when main() started, a record of the file's stock code,
\* year and hash with an MD&A text of at least 500 characters
HeldSuccessfulRecord(f) ==
    \E k \in 1..Len(b_in.rows) :
        /\ b_in.rows[k].stock_code = f.stock_code
        /\ f.year # Nil
        /\ b_in.rows[k].year = Val(f.year)
        /\ b_in.rows[k].source_sha256 = f.sha256
        /\ b_in.rows[k].mda_raw # Nil
        /\ CharCountOf(b_in.rows[k]) >= 500

\* the rows of the table with the key of the file
RowsFor(rows, f) ==
    {rows[k] : k \in {j \in 1..Len(rows) : /\ rows[j].stock_code = f.stock_code
                                           /\ rows[j].year = Val(f.year)
                                           /\ rows[j].source_sha256 = f.sha256}}

\* the run is over: main() returned, or raised after its extraction failed
RunOver == b_pc \in {"exit", "raised"}

\* the files of the run with a stock code and a year
KeyedFiles ==
    {b_in.paths[k] : k \in {j \in 1..Len(b_in.paths) :
                              /\ b_in.paths[j].stock_code # None
                              /\ b_in.paths[j].year # Nil}}

\* C21: in incremental mode a document is skipped if and only if the store
\* holds a record of the same (stock_code, year, source_sha256) with a
\* non-null MD&A text and a character count of at least 500; a record with
\* another hash or a failed record causes no skip, without incremental mode
\* nothing is skipped, and a skipped document is not extracted and leaves
\* the store as it was.
C21_SkipIffSuccessfulRecordStored ==
    RunOver =>
        \A f \in KeyedFiles :
            /\ ~ExtractionRun(f) <=> (b_in.incremental /\ HeldSuccessfulRecord(f))
            /\ ~ExtractionRun(f) =>
                  /\ WritesOf(f, "upsert") = 0
                  /\ WritesOf(f, "error") = 0
                  /\ RowsFor(mda_text, f) = RowsFor(b_in.rows, f)

\* an incremental batch run that skipped a file whose record was stored and
\* extracted another although a failed record of it was stored
C21_Witness ==
    /\ RunOver
    /\ b_in.mode = "dir"
    /\ b_in.incremental
    /\ Len(b_in.rows) = 2
    /\ \E f, g \in KeyedFiles :
          /\ ~ExtractionRun(f)
          /\ ExtractionRun(g)
          /\ RowsFor(b_in.rows, g) # {}

\* the files of the run that are not skipped
NotSkippedFiles ==
    {b_in.paths[k] : k \in {j \in 1..Len(b_in.paths) :
                              ~(b_in.incremental /\ HeldSuccessfulRecord(b_in.paths[j]))}}

\* a batch run that returned wrote one row for each file not skipped,
\* a record or an error
OneOutcomePerFile ==
    (b_in.mode = "dir" /\ b_pc = "exit") =>
        \A f \in NotSkippedFiles : WritesOf(f, "upsert") + WritesOf(f, "error") = 1

\* in a batch run nothing is written while a task is not completed
WritesAfterAllTasks ==
    (b_in.mode = "dir" /\ \E k \in 1..Len(db_log) : db_log[k].op # "select")
    => \A i \in DOMAIN futures : futures[i] = "collected"

\* the step starts or completes a worker task
WorkerTaskStep ==
    /\ futures' # futures
    /\ \E i \in DOMAIN futures :
          futures[i] \in {"pending", "running"} /\ futures'[i] \in {"running", "finished"}

\* C30: in batch mode, whatever the order in which the tasks of the pool
\* complete and whether they return or raise, every scanned file that is
\* not incrementally skipped gets exactly one outcome, a record upsert or an
\* extraction-error row; the worker tasks do not touch the database, and
\* every write is made by the parent after all tasks have completed.
C30_OneOutcomePerFileAnyOrder ==
    /\ [](OneOutcomePerFile /\ WritesAfterAllTasks)
    /\ [][WorkerTaskStep => UNCHANGED <<mda_text, extraction_errors, db_log>>]_vars

\* a batch run whose second task raised and completed before the first,
\* with a file of no stock code: three outcomes, in the order of completion
C30_Witness ==
    /\ b_in.mode = "dir"
    /\ b_pc = "exit"
    /\ Len(results) = 3
    /\ results[1].error # Nil
    /\ Val(results[1].error).error_type = "EXTRACT_EXCEPTION"
    /\ results[2].record # Nil
    /\ Val(results[2].record).source_path = "a/000001_2022.txt"
    /\ results[3].error # Nil
    /\ Val(results[3].error).error_type = "PARSE_ERROR"
    /\ Len(extraction_errors) = 2
    /\ Len(db_log) = 3

=============================================================================
